---- MODULE Spec2Model ----
(***************************************************************************)
(* A model of gta (tangelo-labs/gta): GTA.ChangedPackages and the change   *)
(* classifier GTA.markedPackages of gta.go, run against a differ output    *)
(* and a packager.  Paths, file names and import paths are strings and the *)
(* string functions of the code (filepath.Base, filepath.Dir,              *)
(* filepath.Ext, strings.HasPrefix, ...) are computed on their characters. *)
(***************************************************************************)
EXTENDS Integers, Sequences, FiniteSets, TLC

(***************************************************************************)
(* Strings                                                                 *)
(***************************************************************************)

\* The characters that occur in the paths of the model, in byte order.
Alphabet == <<".", "/", "_", "a", "b", "c", "d", "e", "f", "g", "h", "i",
              "j", "k", "l", "m", "n", "o", "p", "q", "r", "s", "t", "u",
              "v", "w", "x", "y", "z">>

\* The rank of a character in byte order.
Ord(c) == CHOOSE i \in 1..Len(Alphabet) : Alphabet[i] = c

Char(s, i) == SubSeq(s, i, i)

MinOf(S) == CHOOSE m \in S : \A n \in S : m <= n

MaxOf(S) == CHOOSE m \in S : \A n \in S : m >= n

\* Go's < on strings: lexicographic on bytes, a proper prefix is smaller.
StrLess(a, b) ==
  LET n == IF Len(a) < Len(b) THEN Len(a) ELSE Len(b)
      diffs == {i \in 1..n : Char(a, i) # Char(b, i)}
  IN  IF diffs = {} THEN Len(a) < Len(b)
      ELSE Ord(Char(a, MinOf(diffs))) < Ord(Char(b, MinOf(diffs)))

\* strings.HasPrefix
HasPrefix(s, prefix) ==
  Len(prefix) <= Len(s) /\ SubSeq(s, 1, Len(prefix)) = prefix

\* strings.HasSuffix
HasSuffix(s, suffix) ==
  Len(suffix) <= Len(s) /\ SubSeq(s, Len(s) - Len(suffix) + 1, Len(s)) = suffix

\* strings.Index, 1-based; 0 when substr does not occur in s.
StrIndex(s, substr) ==
  LET hits == {i \in 1..(Len(s) - Len(substr) + 1) :
                 SubSeq(s, i, i + Len(substr) - 1) = substr}
  IN  IF hits = {} THEN 0 ELSE MinOf(hits)

\* strings.LastIndex of a single character, 1-based; 0 when absent.
LastIndexOf(s, c) ==
  LET hits == {i \in 1..Len(s) : Char(s, i) = c}
  IN  IF hits = {} THEN 0 ELSE MaxOf(hits)

\* filepath.Base on a clean path (no trailing separator, no "//").
Base(p) ==
  IF p = "" THEN "."
  ELSE IF p = "/" THEN "/"
  ELSE SubSeq(p, LastIndexOf(p, "/") + 1, Len(p))

\* filepath.Dir on a clean path.
Dir(p) ==
  LET i == LastIndexOf(p, "/")
  IN  IF i = 0 THEN "."
      ELSE IF i = 1 THEN "/"
      ELSE SubSeq(p, 1, i - 1)

\* filepath.Ext: the suffix of the last element from its last dot on.
Ext(p) ==
  LET b == SubSeq(p, LastIndexOf(p, "/") + 1, Len(p))
      i == LastIndexOf(b, ".")
  IN  IF i = 0 THEN "" ELSE SubSeq(b, i, Len(b))

\* filepath.Join / path.Join of two clean elements: empty elements are
\* ignored and the result is cleaned ("." as first element disappears).
Join(a, b) ==
  LET b1 == IF Len(b) > 0 /\ Char(b, 1) = "/" THEN SubSeq(b, 2, Len(b)) ELSE b
  IN  IF a = "" \/ a = "." THEN b
      ELSE IF b1 = "" THEN a
      ELSE IF a = "/" THEN "/" \o b1
      ELSE a \o "/" \o b1

\* strings.TrimPrefix
TrimPrefix(s, prefix) ==
  IF HasPrefix(s, prefix) THEN SubSeq(s, Len(prefix) + 1, Len(s)) ELSE s

(***************************************************************************)
(* Helpers of gta.go                                                       *)
(***************************************************************************)

\* hasGoFile taking no file for a Go file.
hasGoFileNever(files) == FALSE

\* hasGoFile taking every file for a Go file.
hasGoFileAlways(files) == TRUE

hasGoFile(files) == \E i \in 1..Len(files) : Ext(files[i]) = ".go"

\* hasOnlyTestFilenames taking every file for a test file.
hasOnlyTestFilenamesAlways(sl) == TRUE

hasOnlyTestFilenames(sl) == \A i \in 1..Len(sl) : HasSuffix(sl[i], "_test.go")

\* hasPrefixIn without the filter.
hasPrefixInAlways(s, prefixes) == TRUE

hasPrefixIn(s, prefixes) ==
  \/ Len(prefixes) = 0
  \/ \E i \in 1..Len(prefixes) : HasPrefix(s, prefixes[i])

\* isIgnoredByGo without the test for a leading dot.
RECURSIVE isIgnoredByGoNoDot(_, _)
isIgnoredByGoNoDot(name, roots) ==
  IF \E i \in 1..Len(roots) : roots[i] = name THEN FALSE
  ELSE LET base == Base(name)
       IN  IF Char(base, 1) = "/" THEN FALSE
           ELSE IF \/ base = ""
                   \/ Char(base, 1) = "_"
                   \/ base = "testdata" THEN TRUE
           ELSE IF Dir(name) = "." THEN FALSE
           ELSE isIgnoredByGoNoDot(Dir(name), roots)

RECURSIVE isIgnoredByGo(_, _)
isIgnoredByGo(name, roots) ==
  IF \E i \in 1..Len(roots) : roots[i] = name THEN FALSE
  ELSE LET base == Base(name)
       IN  IF Char(base, 1) = "/" THEN FALSE
           ELSE IF \/ base = ""
                   \/ Char(base, 1) = "."
                   \/ Char(base, 1) = "_"
                   \/ base = "testdata" THEN TRUE
           ELSE IF Dir(name) = "." THEN FALSE
           ELSE isIgnoredByGo(Dir(name), roots)

RECURSIVE isTestData(_)
isTestData(name) ==
  LET base == Base(name)
  IN  IF Char(base, 1) = "/" THEN FALSE
      ELSE IF name = "testdata" \/ base = "testdata" THEN TRUE
      ELSE IF Dir(name) = "." THEN FALSE
      ELSE isTestData(Dir(name))

RECURSIVE deepestUnignoredDir(_, _)
deepestUnignoredDir(name, roots) ==
  IF name = "." \/ name = "/" THEN name
  ELSE IF isIgnoredByGo(name, roots) THEN deepestUnignoredDir(Dir(name), roots)
  ELSE name

(***************************************************************************)
(* The workspace: what is on disk, what go/build reports for a directory   *)
(* and what the package loader has loaded.  go/build, packages.Load and    *)
(* the file system are outside the repository; their outcomes are data     *)
(* here.                                                                   *)
(***************************************************************************)

\* g.roots: in module mode the module root (toplevel / moduleroot).
roots == <<"/r">>

\* The value of the environment variable GO111MODULE.
GO111MODULE == "on"

\* modulesNamesByDir of the packager: the main module's directory and path.
modulesNamesByDir == [d \in {"/r"} |-> "m"]

\* The directories that exist on disk (exists, os.Stat).
ExistingDirs == {"/", "/r", "/r/a", "/r/a/testdata", "/r/a/testdata/s",
                 "/r/a/_x", "/r/a/w", "/r/b", "/r/c", "/r/e", "/r/f", "/r/g",
                 "/r/g/k", "/r/.h"}

exists(path) == path \in ExistingDirs

\* The error of build.Context.ImportDir(dir, 0): nil for a directory with
\* buildable Go files, *build.NoGoError for an existing directory without,
\* scanner.ErrorList for one with a syntax error, and another error for a
\* directory that is gone or (here /r/g and /r/g/k) holds several packages.
\* /r/.h is a hidden directory with Go files, /r/a/w a directory of assets.
ImportDirErr(dir) ==
  IF ~exists(dir) THEN "other"
  ELSE IF dir \in {"/r/a", "/r/b", "/r/c", "/r/.h"} THEN "nil"
  ELSE IF dir = "/r/f" THEN "ErrorList"
  ELSE IF dir \in {"/r/g", "/r/g/k"} THEN "other"
  ELSE "NoGoError"

\* The packagers ChangedPackages is run against: what dependencyGraph of the
\* default packager left in forward, reverse, packagesByEmbedFile and err.
\*  1: m/b imports m/a, m/c imports m/b and the deleted m/d, m/a imports m/e
\*     whose Go files are gone; m/a embeds four files.
\*  2: the test variant of m/a imports m/b, which imports m/a: a cycle.
\*  3: a packager loaded before m/b was added and m/d, which imports m/a and
\*     is imported by m/c, was deleted.
\*  4: packages.Load failed.
Packagers ==
  << [forward |-> [p \in {"m/a", "m/b", "m/c"} |->
                     IF p = "m/a" THEN {"m/e"}
                     ELSE IF p = "m/b" THEN {"m/a"} ELSE {"m/b", "m/d"}],
      reverse |-> [p \in {"m/e", "m/a", "m/b", "m/d"} |->
                     IF p = "m/e" THEN {"m/a"}
                     ELSE IF p = "m/a" THEN {"m/b"} ELSE {"m/c"}],
      packagesByEmbedFile |->
         [f \in {"/r/a/_x/x.txt", "/r/a/readme.md", "/r/a/testdata/t.txt",
                  "/r/a/w/w.txt"} |-> <<"m/a">>],
      err |-> FALSE],
     [forward |-> [p \in {"m/a", "m/b", "m/c"} |->
                     IF p = "m/a" THEN {"m/b"}
                     ELSE IF p = "m/b" THEN {"m/a"} ELSE {"m/b"}],
      reverse |-> [p \in {"m/a", "m/b"} |->
                     IF p = "m/a" THEN {"m/b"} ELSE {"m/a", "m/c"}],
      packagesByEmbedFile |-> [f \in {} |-> <<>>],
      err |-> FALSE],
     [forward |-> [p \in {"m/a", "m/c", "m/d"} |->
                     IF p = "m/a" THEN {}
                     ELSE IF p = "m/d" THEN {"m/a"} ELSE {"m/a", "m/d"}],
      reverse |-> [p \in {"m/a", "m/d"} |->
                     IF p = "m/a" THEN {"m/c", "m/d"} ELSE {"m/c"}],
      packagesByEmbedFile |-> [f \in {} |-> <<>>],
      err |-> FALSE],
     [forward |-> [p \in {} |-> {}],
      reverse |-> [p \in {} |-> {}],
      packagesByEmbedFile |-> [f \in {} |-> <<>>],
      err |-> TRUE] >>

\* The prefix lists given to SetPrefixes.
PrefixLists == {<<>>, <<"m/a">>, <<"m/c", "m/d">>}

\* The changes a differ can report: a directory and the changed files in it.
Catalog ==
  { [abs |-> "/r/a", Files |-> <<"a.go">>],
    [abs |-> "/r/a", Files |-> <<"a_test.go">>],
    [abs |-> "/r/a", Files |-> <<"readme.md">>],
    [abs |-> "/r/a", Files |-> <<"a.go", "a_test.go">>],
    [abs |-> "/r/b", Files |-> <<"b.go">>],
    [abs |-> "/r/b", Files |-> <<"b_test.go">>],
    [abs |-> "/r/a/testdata", Files |-> <<"t.txt">>],
    [abs |-> "/r/a/testdata/s", Files |-> <<"u.txt">>],
    [abs |-> "/r/a/_x", Files |-> <<"x.txt">>],
    [abs |-> "/r/a/w", Files |-> <<"w.txt">>],
    [abs |-> "/r/d", Files |-> <<"d.go">>],
    [abs |-> "/r/d", Files |-> <<"d_test.go">>],
    [abs |-> "/r/d", Files |-> <<"d.md">>],
    [abs |-> "/r/e", Files |-> <<"e.go">>],
    [abs |-> "/r/e", Files |-> <<"e_test.go">>],
    [abs |-> "/r/f", Files |-> <<"f.go">>],
    [abs |-> "/r/g", Files |-> <<"g.go">>],
    [abs |-> "/r/g/k", Files |-> <<"k.go">>],
    [abs |-> "/r/.h", Files |-> <<"h.go">>] }

\* The most directories one diff holds.
MaxDirs == 2

\* The outputs of Differ.Diff: at most MaxDirs directories, each once, with
\* Exists as differ.Diff computes it (exists(dir)).
Diffs ==
  { [abs \in {c.abs : c \in S} |->
       [Exists |-> exists(abs),
        Files |-> (CHOOSE c \in S : c.abs = abs).Files]] :
    S \in {T \in SUBSET Catalog :
             /\ Cardinality(T) <= MaxDirs
             /\ \A c1, c2 \in T : c1.abs = c2.abs => c1 = c2} }

\* The state of ChangedPackages.
VARIABLES
  dirs,                     \* the result of g.differ.Diff()
  packager,                 \* g.packager
  prefixes,                 \* g.prefixes
  pc,                       \* where ChangedPackages is
  todo,                     \* the directories the range over dirs has to visit
  changed,                  \* markedPackages: import path -> deleted
  embeddedChanged,
  onlyTestsAffected,
  onlyTestPackagesChanged,
  graph,                    \* the Graph of DependentGraph
  paths,                    \* markedPackages: changed -> (import path -> check)
  built,                    \* the keys of paths ChangedPackages has visited
  allChanges,               \* ChangedPackages: import path -> Package
  cp,                       \* the Packages value being built and returned
  lookups,                  \* the import paths PackageFromImport was called with
  err                       \* the error ChangedPackages returns

(***************************************************************************)
(* The packager (packageContext)                                           *)
(***************************************************************************)

\* p.modulesNamesByDir: nil when packages.Load failed.
modulesNamesByDirOf(p) ==
  IF p.err THEN [d \in {} |-> ""] ELSE modulesNamesByDir

stripVendor(importPath) ==
  IF GO111MODULE = "off" THEN importPath
  ELSE LET idx == StrIndex(importPath, "/vendor/")
       IN  IF idx > 0
           THEN SubSeq(importPath, idx + Len("/vendor/"), Len(importPath))
           ELSE importPath

\* resolveLocal for the one module of modulesByDir: the import path of dir
\* when go/build reported the relative import path ".".
resolveLocal(importPath, dir, modulesByDir) ==
  IF importPath # "." THEN importPath
  ELSE IF dir \in DOMAIN modulesByDir THEN modulesByDir[dir]
  ELSE LET ks == {k \in DOMAIN modulesByDir : HasPrefix(dir, k)}
       IN  IF ks = {} THEN importPath
           ELSE LET k == CHOOSE k \in ks : TRUE
                    candidateImportPath == TrimPrefix(dir, k)
                IN  IF HasPrefix(candidateImportPath, "/vendor/")
                    THEN TrimPrefix(candidateImportPath, "/vendor/")
                    ELSE Join(modulesByDir[k], candidateImportPath)

\* PackageFromDir: the package of ImportDir(dir, 0), which go/build names "."
\* for a directory outside GOPATH, and ImportDir's error.
PackageFromDir(dir) ==
  [ImportPath |-> stripVendor(resolveLocal(".", dir,
                                           modulesNamesByDirOf(packager))),
   err |-> ImportDirErr(dir)]

\* PackageFromEmptyDir: ImportDir(dir, build.FindOnly) does not read the
\* files of dir and fails only when dir is not a directory.
PackageFromEmptyDir(dir) ==
  [ImportPath |-> stripVendor(resolveLocal(".", dir,
                                           modulesNamesByDirOf(packager))),
   err |-> IF exists(dir) THEN "nil" ELSE "other"]

\* PackageFromImport looking up the import path as it is given.
PackageFromImportRaw(p, importPath) ==
  IF importPath \notin DOMAIN p.forward
  THEN [ImportPath |-> "", Dir |-> "", err |-> importPath \o " not found"]
  ELSE [ImportPath |-> importPath, Dir |-> importPath, err |-> "nil"]

\* PackageFromImport: a package when the import path without its vendor
\* prefix is a key of forward.
PackageFromImport(p, importPath) ==
  LET ip == stripVendor(importPath)
  IN  IF ip \notin DOMAIN p.forward
      THEN [ImportPath |-> "", Dir |-> "", err |-> ip \o " not found"]
      ELSE [ImportPath |-> ip, Dir |-> ip, err |-> "nil"]

\* EmbeddedBy finding no package.
EmbeddedByNone(p, fn) == <<>>

\* EmbeddedBy: the import paths of the packages that embed the file fn.
EmbeddedBy(p, fn) ==
  IF fn \in DOMAIN p.packagesByEmbedFile THEN p.packagesByEmbedFile[fn] ELSE <<>>

\* DependentGraph forgetting the load error.
DependentGraphErrNone(p) == "nil"

\* DependentGraph: the error it returns, p.err.
DependentGraphErr(p) == IF p.err THEN "loading packages" ELSE "nil"

\* DependentGraph: the reverse graph as a Graph, each node with the set of
\* the keys of its inner map.
DependentGraph(p) == [k \in DOMAIN p.reverse |-> p.reverse[k]]

(***************************************************************************)
(* Graph                                                                   *)
(***************************************************************************)

\* Graph.Traverse: mark is the set of the nodes that mark maps to true; the
\* edges of a node are visited in some order.
RECURSIVE Traverse(_, _, _)
Traverse(g, node, mark) ==
  IF node \in mark THEN mark
  ELSE LET RECURSIVE Edges(_, _)
           Edges(edges, m) ==
             IF edges = {} THEN m
             ELSE LET edge == CHOOSE e \in edges : TRUE
                  IN  Edges(edges \ {edge}, Traverse(g, edge, m))
       IN  Edges(IF node \in DOMAIN g THEN g[node] ELSE {},
                 mark \cup {node})

(***************************************************************************)
(* gta.go                                                                  *)
(***************************************************************************)

\* findImportPath taking the import path PackageFromDir computes for abs,
\* whether or not the directory exists and holds a package.
findImportPathDirect(abs) ==
  [ImportPath |-> PackageFromDir(abs).ImportPath, notFound |-> FALSE]

\* findImportPath: the import path found and whether errImportPathNotFound
\* is returned with it.
RECURSIVE findImportPath(_)
findImportPath(abs) ==
  LET base == Base(abs)
      parent == Dir(abs)
  IN  IF base = abs THEN [ImportPath |-> "", notFound |-> TRUE]
      ELSE IF ~exists(abs)
      THEN LET r == findImportPath(parent)
           IN  [ImportPath |-> Join(r.ImportPath, base), notFound |-> r.notFound]
      ELSE LET pkg == PackageFromDir(abs)
           IN  IF pkg.err = "nil"
               THEN [ImportPath |-> pkg.ImportPath, notFound |-> FALSE]
               ELSE IF /\ pkg.err = "NoGoError"
                       /\ PackageFromEmptyDir(abs).err = "nil"
               THEN [ImportPath |-> PackageFromEmptyDir(abs).ImportPath,
                     notFound |-> FALSE]
               ELSE LET r == findImportPath(parent)
                    IN  [ImportPath |-> Join(r.ImportPath, base),
                         notFound |-> r.notFound]

\* byPackageImportPath.Less
Less(a, b) == StrLess(a.ImportPath, b.ImportPath)

\* A sort that leaves its argument as it is.
SortByImportPathNot(s) == s

\* sort.Sort(byPackageImportPath(s)): s ordered ascending by import path.
RECURSIVE SortByImportPath(_)
SortByImportPath(s) ==
  IF Len(s) <= 1 THEN s
  ELSE LET rest == SortByImportPath(Tail(s))
           k == Cardinality({i \in 1..Len(rest) : Less(rest[i], Head(s))})
       IN  SubSeq(rest, 1, k) \o <<Head(s)>> \o SubSeq(rest, k + 1, Len(rest))

\* The values of a sequence.
Range(s) == {s[i] : i \in 1..Len(s)}

\* The state of the parts of the package that are exercised on their own.
VARIABLES
  json,                     \* a Packages value, its JSON and the value read back
  gta,                      \* a GTA under construction and at the entry of
                            \* ChangedPackages
  git,                      \* a git differ and the goroutines that call it
  trav,                     \* a call of Graph.Traverse and its recursion
  pctx,                     \* the calls made to a packageContext
  ord,                      \* a second call of ChangedPackages, after a first
  load,                     \* dependencyGraph going over the packages packages.Load returned
  rev,                      \* git.diff choosing the revisions it compares
  find                      \* a call of GTA.findImportPath

gtaVars == <<dirs, packager, prefixes, pc, todo, changed, embeddedChanged,
             onlyTestsAffected, onlyTestPackagesChanged, graph, paths, built,
             allChanges, cp, lookups, err>>

others == <<json, gta, git, trav, pctx, ord, load, rev, find>>

vars == <<gtaVars, others>>

world == <<dirs, packager, prefixes>>

\* A map without keys.
EmptyMap == [k \in {} |-> FALSE]

\* ChangedPackages is not called.
NoRun ==
  /\ dirs = EmptyMap
  /\ prefixes = <<>>
  /\ pc = "idle"
  /\ todo = {}
  /\ changed = EmptyMap
  /\ embeddedChanged = {}
  /\ onlyTestsAffected = {}
  /\ onlyTestPackagesChanged = {}
  /\ graph = EmptyMap
  /\ paths = EmptyMap
  /\ built = {}
  /\ allChanges = EmptyMap
  /\ cp = [Dependencies |-> EmptyMap, Changes |-> <<>>, AllChanges |-> <<>>]
  /\ lookups = {}
  /\ err = "nil"

\* No GTA has been constructed.
NoGTA == NoRun /\ packager = Packagers[Len(Packagers)]

\* New with SetDiffer, SetPackager and SetPrefixes, and the entry of
\* ChangedPackages and markedPackages up to the range over dirs.
Init ==
  /\ dirs \in Diffs
  /\ packager \in Range(Packagers)
  /\ prefixes \in PrefixLists
  /\ pc = "dirs"
  /\ todo = DOMAIN dirs
  /\ changed = EmptyMap
  /\ embeddedChanged = {}
  /\ onlyTestsAffected = {}
  /\ onlyTestPackagesChanged = {}
  /\ graph = EmptyMap
  /\ paths = EmptyMap
  /\ built = {}
  /\ allChanges = EmptyMap
  /\ cp = [Dependencies |-> EmptyMap, Changes |-> <<>>, AllChanges |-> <<>>]
  /\ lookups = {}
  /\ err = "nil"
  /\ json = [pc |-> "idle"]
  /\ gta = [pc |-> "idle"]
  /\ git = [pc |-> "idle"]
  /\ trav = [pc |-> "idle"]
  /\ pctx = [pc |-> "idle"]
  /\ ord = [pc |-> "idle"]
  /\ load = [pc |-> "idle"]
  /\ rev = [pc |-> "idle"]
  /\ find = [pc |-> "idle"]

\* The error of markedPackages without the directory.
pullingErrorUnquoted(abs) == "pulling package information"

\* fmt.Errorf("pulling package information for %q, %v", abs, err), the
\* error of PackageFromDir left out.
pullingError(abs) == "pulling package information for " \o abs

\* markedPackages failed in its range over dirs.
PullingFailed == HasPrefix(err, "pulling package information")

\* One iteration of the range over dirs in markedPackages, for the key abs0.
ClassifyDir(abs0) ==
  /\ pc = "dirs"
  /\ abs0 \in todo
  /\ LET dir0 == dirs[abs0]
         emb == UNION {Range(EmbeddedBy(packager, Join(abs0, dir0.Files[i]))) :
                         i \in 1..Len(dir0.Files)}
         changed1 == [ip \in emb |-> FALSE] @@ changed
         ignored == isIgnoredByGo(abs0, roots)
         absAncestor == deepestUnignoredDir(abs0, roots)
         skipped == /\ ignored
                    /\ \/ ~isTestData(abs0)
                       \/ absAncestor \in DOMAIN dirs
                       \/ absAncestor = "/"
         abs == IF ignored THEN absAncestor ELSE abs0
         dir == IF ignored THEN [Exists |-> TRUE, Files |-> <<>>] ELSE dir0
         ota == IF ignored \/ hasOnlyTestFilenames(dir0.Files)
                THEN onlyTestsAffected \cup {abs}
                ELSE onlyTestsAffected
         pkg == PackageFromDir(abs)
         found == findImportPath(abs)
         gone == /\ hasGoFile(dir.Files)
                 /\ \/ pkg.err = "NoGoError"
                    \/ pkg.err = "other" /\ ~dir.Exists
         otpc == IF abs \in ota
                 THEN onlyTestPackagesChanged \cup {pkg.ImportPath}
                 ELSE onlyTestPackagesChanged
         shouldMark == \/ hasGoFile(dir.Files)
                       \/ abs \in ota
                       \/ pkg.ImportPath \in onlyTestPackagesChanged
     IN  /\ todo' = todo \ {abs0}
         /\ embeddedChanged' = embeddedChanged \cup emb
         /\ IF skipped
            THEN /\ changed' = changed1
                 /\ UNCHANGED <<onlyTestsAffected, onlyTestPackagesChanged, pc, err>>
            ELSE IF ~dir.Exists /\ ~hasGoFile(dir.Files)
            THEN /\ changed' = changed1
                 /\ onlyTestsAffected' = ota
                 /\ UNCHANGED <<onlyTestPackagesChanged, pc, err>>
            ELSE IF pkg.err = "nil"
            THEN /\ changed' = IF shouldMark
                               THEN (pkg.ImportPath :> FALSE) @@ changed1
                               ELSE changed1
                 /\ onlyTestsAffected' = ota
                 /\ onlyTestPackagesChanged' = otpc
                 /\ UNCHANGED <<pc, err>>
            ELSE IF gone
            THEN /\ changed' = IF found.notFound THEN changed1
                               ELSE (found.ImportPath :> TRUE) @@ changed1
                 /\ onlyTestsAffected' = ota
                 /\ onlyTestPackagesChanged' =
                      IF ~found.notFound /\ abs \in ota
                      THEN onlyTestPackagesChanged \cup {found.ImportPath}
                      ELSE onlyTestPackagesChanged
                 /\ UNCHANGED <<pc, err>>
            ELSE IF pkg.err \in {"NoGoError", "ErrorList"}
            THEN /\ changed' = changed1
                 /\ onlyTestsAffected' = ota
                 /\ UNCHANGED <<onlyTestPackagesChanged, pc, err>>
            ELSE /\ changed' = changed1
                 /\ onlyTestsAffected' = ota
                 /\ pc' = "done"
                 /\ err' = pullingError(abs)
                 /\ UNCHANGED onlyTestPackagesChanged
  /\ UNCHANGED <<world, graph, paths, built, allChanges, cp, lookups>>
  /\ UNCHANGED others

\* The range over onlyTestPackagesChanged deleting nothing.
embedCorrectionNone(onlyTest, embedded) == onlyTest

\* onlyTestPackagesChanged after the range that deletes every key that is
\* also a key of embeddedChanged.
embedCorrection(onlyTest, embedded) == onlyTest \ embedded

\* markedPackages after the range over dirs: the embed correction of
\* onlyTestPackagesChanged and the call of DependentGraph.
BuildGraph ==
  /\ pc = "dirs"
  /\ todo = {}
  /\ onlyTestPackagesChanged' =
       embedCorrection(onlyTestPackagesChanged, embeddedChanged)
  /\ IF packager.err
     THEN /\ pc' = "done"
          /\ err' = "building dependency graph"
          /\ UNCHANGED graph
     ELSE /\ graph' = DependentGraph(packager)
          /\ pc' = IF DOMAIN changed = {} THEN "build" ELSE "mark"
          /\ UNCHANGED err
  /\ UNCHANGED <<world, todo, changed, embeddedChanged, onlyTestsAffected,
                 paths, built, allChanges, cp, lookups>>
  /\ UNCHANGED others

\* markedOf marking the direct dependents only.
markedOfDirect(change) ==
  IF change \in onlyTestPackagesChanged
  THEN (change :> ~changed[change])
  ELSE [importPath \in {change} \cup
                       (IF change \in DOMAIN graph THEN graph[change] ELSE {}) |->
          ~(importPath \in DOMAIN changed /\ changed[importPath])]

\* markedOf without the test-only case.
markedOfPropagating(change) ==
  [importPath \in Traverse(graph, change, {}) |->
     ~(importPath \in DOMAIN changed /\ changed[importPath])]

\* markedOf without the clearing of deleted packages.
markedOfAllExist(change) ==
  IF change \in onlyTestPackagesChanged
  THEN (change :> TRUE)
  ELSE [importPath \in Traverse(graph, change, {}) |-> TRUE]

\* The marked set markedPackages computes for one changed package.
markedOf(change) ==
  IF change \in onlyTestPackagesChanged
  THEN (change :> ~changed[change])
  ELSE [importPath \in Traverse(graph, change, {}) |->
          ~(importPath \in DOMAIN changed /\ changed[importPath])]

\* One iteration of the range over changed in markedPackages.
MarkChange(change) ==
  /\ pc = "mark"
  /\ change \in DOMAIN changed \ DOMAIN paths
  /\ paths' = (change :> markedOf(change)) @@ paths
  /\ pc' = IF DOMAIN paths' = DOMAIN changed THEN "build" ELSE "mark"
  /\ UNCHANGED <<world, todo, changed, embeddedChanged, onlyTestsAffected,
                 onlyTestPackagesChanged, graph, built, allChanges, cp,
                 lookups, err>>
  /\ UNCHANGED others

\* The package ChangedPackages makes of a marked import path.
packageOf(path, check) ==
  IF check THEN PackageFromImport(packager, path)
  ELSE [ImportPath |-> path, Dir |-> "", err |-> "nil"]

\* The orders in which a range over a map with the keys S can visit them.
RECURSIVE Orders(_)
Orders(S) ==
  IF S = {} THEN {<<>>}
  ELSE UNION {{<<e>> \o o : o \in Orders(S \ {e})} : e \in S}

\* allChangesAdd storing only the changed package itself.
allChangesAddChangedOnly(all, c, pkg) ==
  IF c = pkg.ImportPath THEN (pkg.ImportPath :> pkg) @@ all ELSE all

\* allChangesAdd keeping one entry per changed package and import path.
allChangesAddPerChange(all, c, pkg) == ((c \o ":" \o pkg.ImportPath) :> pkg) @@ all

\* addPackage in ChangedPackages, its effect on allChanges: the package is
\* stored under its import path.
allChangesAdd(all, c, pkg) == (pkg.ImportPath :> pkg) @@ all

\* allChanges after addPackage was called with the packages of added in turn.
RECURSIVE allChangesAddAll(_, _, _)
allChangesAddAll(all, c, added) ==
  IF added = <<>> THEN all
  ELSE allChangesAddAll(allChangesAdd(all, c, Head(added)), c, Tail(added))

\* addPackage appending every package to the dependents.
isDependentAlways(c, pkg) == TRUE

\* addPackage in ChangedPackages: pkg is appended to the dependents of the
\* changed package c and not to Changes.
isDependent(c, pkg) == c # pkg.ImportPath

\* ChangedPackages returning the value it has built so far with the error.
packagesOnErrorPartial(built0) == built0

\* The *Packages ChangedPackages returns with the error of a lookup: nil,
\* which is the value without entries here, whatever was built so far.
packagesOnError(built0) ==
  [Dependencies |-> EmptyMap, Changes |-> <<>>, AllChanges |-> <<>>]

\* One iteration of the range over paths in ChangedPackages, with the key c:
\* the packages of the marked set in the order the inner range visits them,
\* up to the first failing lookup.
BuildPackages(c) ==
  /\ pc = "build"
  /\ c \in DOMAIN paths \ built
  /\ \E order \in Orders(DOMAIN paths[c]) :
       LET marked == paths[c]
           pkgs == [i \in 1..Len(order) |-> packageOf(order[i], marked[order[i]])]
           failing == {i \in 1..Len(order) : pkgs[i].err # "nil"}
           upto == IF failing = {} THEN Len(order) ELSE MinOf(failing)
           Kept(pkg) == hasPrefixIn(pkg.ImportPath, prefixes)
           added == SelectSeq([i \in 1..Len(order) |->
                                 [ImportPath |-> pkgs[i].ImportPath,
                                  Dir |-> pkgs[i].Dir]], Kept)
           IsChanged(pkg) == pkg.ImportPath = c
           IsOther(pkg) == isDependent(c, pkg)
           packages == SelectSeq(added, IsOther)
       IN  /\ lookups' = lookups \cup
                           {order[i] : i \in {j \in 1..upto : marked[order[j]]}}
           /\ IF failing # {}
              THEN /\ pc' = "done"
                   /\ err' = pkgs[upto].err
                   /\ cp' = packagesOnError(cp)
                   /\ UNCHANGED <<built, allChanges>>
              ELSE /\ built' = built \cup {c}
                   /\ allChanges' = allChangesAddAll(allChanges, c, added)
                   /\ cp' = [cp EXCEPT
                               !.Changes = @ \o SelectSeq(added, IsChanged),
                               !.Dependencies =
                                  IF Len(packages) # 0
                                  THEN (c :> SortByImportPath(packages)) @@ @
                                  ELSE @]
                   /\ UNCHANGED <<pc, err>>
  /\ UNCHANGED <<world, todo, changed, embeddedChanged, onlyTestsAffected,
                 onlyTestPackagesChanged, graph, paths>>
  /\ UNCHANGED others

\* The end of ChangedPackages: AllChanges from the values of allChanges in
\* the order the range visits them, and the sorts.
Finish ==
  /\ pc = "build"
  /\ built = DOMAIN paths
  /\ \E order \in Orders(DOMAIN allChanges) :
       cp' = [cp EXCEPT
                !.AllChanges =
                   SortByImportPath([i \in 1..Len(order) |-> allChanges[order[i]]]),
                !.Changes = SortByImportPath(@)]
  /\ pc' = "done"
  /\ UNCHANGED <<world, todo, changed, embeddedChanged, onlyTestsAffected,
                 onlyTestPackagesChanged, graph, paths, built, allChanges,
                 lookups, err>>
  /\ UNCHANGED others

Next ==
  \/ \E abs \in DOMAIN dirs : ClassifyDir(abs)
  \/ BuildGraph
  \/ \E change \in DOMAIN changed : MarkChange(change)
  \/ \E c \in DOMAIN paths : BuildPackages(c)
  \/ Finish

Spec == Init /\ [][Next]_vars

(***************************************************************************)
(* Properties                                                              *)
(***************************************************************************)

\* ChangedPackages has returned a Packages value and no error.
Success == pc = "done" /\ err = "nil"

\* The import paths of a list of packages.
ImportPaths(s) == {s[i].ImportPath : i \in 1..Len(s)}

\* Dependencies[c] as a Go map lookup: no list when c is not a key.
DependenciesOf(c) ==
  IF c \in DOMAIN cp.Dependencies THEN cp.Dependencies[c] ELSE <<>>

\* The packages reachable from the packages of S along the edges of the
\* reverse graph of the packager, S included.
RECURSIVE Closure(_)
Closure(S) ==
  LET T == S \cup UNION {packager.reverse[q] : q \in S \cap DOMAIN packager.reverse}
  IN  IF T = S THEN S ELSE Closure(T)

\* The direct and transitive dependents of c.
Dependents(c) == Closure({c}) \ {c}

\* s is ascending by import path.
Ascending(s) ==
  \A i, j \in 1..Len(s) : i < j => ~StrLess(s[j].ImportPath, s[i].ImportPath)

\* The changed files of the diff, as absolute paths.
ChangedFiles ==
  UNION {{Join(abs, dirs[abs].Files[i]) : i \in 1..Len(dirs[abs].Files)} :
           abs \in DOMAIN dirs}

\* The packages that embed the file f.
Embedders(f) ==
  IF f \in DOMAIN packager.packagesByEmbedFile
  THEN Range(packager.packagesByEmbedFile[f])
  ELSE {}

\* C1: with no prefix filter, every changed package that is not classified
\* test-only is listed in Changes and its Dependencies list holds exactly its
\* direct and transitive dependents in the reverse graph, itself excluded.
C1_Closure ==
  (Success /\ prefixes = <<>>) =>
    \A c \in DOMAIN changed :
      c \notin onlyTestPackagesChanged =>
        /\ c \in ImportPaths(cp.Changes)
        /\ ImportPaths(DependenciesOf(c)) = Dependents(c)

\* A result without prefix filter in which a changed package that is not
\* test-only has a dependent of a dependent.
C1_Witness ==
  /\ Success /\ prefixes = <<>>
  /\ \E c \in DOMAIN changed :
       /\ c \notin onlyTestPackagesChanged
       /\ c \in DOMAIN packager.reverse
       /\ \E d \in packager.reverse[c] :
            /\ d \in DOMAIN packager.reverse
            /\ packager.reverse[d] \ {c, d} # {}
            /\ Len(DependenciesOf(c)) >= 2

\* C2: in a successful result the import paths of AllChanges are those of
\* Changes together with those of all Dependencies lists.
C2_AllChangesIsUnion ==
  Success =>
    ImportPaths(cp.AllChanges) =
      ImportPaths(cp.Changes) \cup
      UNION {ImportPaths(cp.Dependencies[k]) : k \in DOMAIN cp.Dependencies}

\* A result with a changed package and a non-empty Dependencies list.
C2_Witness ==
  /\ Success
  /\ cp.Changes # <<>>
  /\ \E k \in DOMAIN cp.Dependencies : cp.Dependencies[k] # <<>>

\* C3: in a successful result Changes, AllChanges and every Dependencies list
\* are ascending by import path.
C3_Sorted ==
  Success =>
    /\ Ascending(cp.Changes)
    /\ Ascending(cp.AllChanges)
    /\ \A k \in DOMAIN cp.Dependencies : Ascending(cp.Dependencies[k])

\* A result with two changes, three packages in all and a Dependencies list
\* of two.
C3_Witness ==
  /\ Success
  /\ Len(cp.Changes) >= 2
  /\ Len(cp.AllChanges) >= 3
  /\ \E k \in DOMAIN cp.Dependencies : Len(cp.Dependencies[k]) >= 2

\* C4: AllChanges never holds an import path twice.
C4_AllChangesUnique ==
  Success =>
    \A i, j \in 1..Len(cp.AllChanges) :
      i # j => cp.AllChanges[i].ImportPath # cp.AllChanges[j].ImportPath

\* A result in which a package is a dependent of two changed packages, one
\* of which is also a dependent of the other.
C4_Witness ==
  /\ Success
  /\ \E k1, k2 \in DOMAIN cp.Dependencies :
       /\ k1 # k2
       /\ ImportPaths(cp.Dependencies[k1]) \cap ImportPaths(cp.Dependencies[k2]) # {}
       /\ k2 \in ImportPaths(cp.Dependencies[k1])

\* C5: with a non-empty prefix list every package of Changes, AllChanges and
\* the Dependencies lists starts with one of the prefixes; with an empty list
\* every changed package and, unless it is test-only, every dependent of it
\* is in AllChanges.
C5_PrefixFilter ==
  Success =>
    /\ prefixes # <<>> =>
         \A ip \in ImportPaths(cp.Changes) \cup ImportPaths(cp.AllChanges) \cup
                   UNION {ImportPaths(cp.Dependencies[k]) : k \in DOMAIN cp.Dependencies} :
           \E i \in 1..Len(prefixes) : HasPrefix(ip, prefixes[i])
    /\ prefixes = <<>> =>
         \A c \in DOMAIN changed :
           /\ c \in ImportPaths(cp.AllChanges)
           /\ c \notin onlyTestPackagesChanged =>
                Dependents(c) \subseteq ImportPaths(cp.AllChanges)

\* A result under a prefix list that kept one package of a marked set and
\* dropped another.
C5_Witness ==
  /\ Success
  /\ prefixes # <<>>
  /\ cp.AllChanges # <<>>
  /\ \E c \in DOMAIN paths : \E ip \in DOMAIN paths[c] :
       ip \notin ImportPaths(cp.AllChanges)

\* ip passes the prefix filter.
PrefixOK(ip) ==
  prefixes = <<>> \/ \E i \in 1..Len(prefixes) : HasPrefix(ip, prefixes[i])

\* The names of the directories on the way from below a workspace root to abs.
RECURSIVE SegmentsBelowRoot(_)
SegmentsBelowRoot(abs) ==
  IF abs \in Range(roots) \cup {"/", "."} THEN {}
  ELSE {Base(abs)} \cup SegmentsBelowRoot(Dir(abs))

\* abs is ignored by the Go tool for a name that begins with "." or "_", and
\* no directory on the way to it is named testdata.
IgnoredNotTestdata(abs) ==
  /\ \E seg \in SegmentsBelowRoot(abs) : Char(seg, 1) \in {".", "_"}
  /\ "testdata" \notin SegmentsBelowRoot(abs)

\* No directory from below a workspace root to D is ignored by the Go tool.
Unignored(D) ==
  \A seg \in SegmentsBelowRoot(D) :
    Char(seg, 1) \notin {".", "_"} /\ seg # "testdata"

\* abs is D/testdata or a directory below it.
AtOrBelowTestdataOf(abs, D) ==
  \/ abs = Join(D, "testdata")
  \/ HasPrefix(abs, Join(D, "testdata") \o "/")

\* The directories that can hold a package.
PackageDirs == {D \in ExistingDirs \cup DOMAIN dirs : Unignored(D) /\ D \notin {"/"}}

\* The import path of the package of directory D, on disk or gone.
ImportPathOfDir(D) ==
  IF PackageFromDir(D).err = "nil" THEN PackageFromDir(D).ImportPath
  ELSE findImportPath(D).ImportPath

\* The changes of the diff affect the tests of the package of D only: its
\* changed files are all test files, or D itself has no changed file and a
\* directory at or below D/testdata has; and no changed file is embedded by
\* the package.
TestOnlyChange(D) ==
  /\ \/ /\ D \in DOMAIN dirs
        /\ \A i \in 1..Len(dirs[D].Files) : HasSuffix(dirs[D].Files[i], "_test.go")
     \/ /\ D \notin DOMAIN dirs
        /\ \E abs \in DOMAIN dirs : AtOrBelowTestdataOf(abs, D)
  /\ \A f \in ChangedFiles : ImportPathOfDir(D) \notin Embedders(f)

\* C6: a package whose change is test-only (test files or testdata, no
\* embedded file) has no Dependencies entry, and a dependent of it is in
\* AllChanges only when it is itself changed or is a dependent of another
\* changed package whose change is not test-only.
C6_TestOnlyIsolation ==
  Success =>
    \A D \in PackageDirs :
      TestOnlyChange(D) =>
        LET P == ImportPathOfDir(D)
        IN  /\ P \notin DOMAIN cp.Dependencies
            /\ \A q \in Dependents(P) \cap ImportPaths(cp.AllChanges) :
                 \/ q \in DOMAIN changed
                 \/ \E D2 \in PackageDirs :
                      /\ ~TestOnlyChange(D2)
                      /\ ImportPathOfDir(D2) # P
                      /\ ImportPathOfDir(D2) \in DOMAIN changed
                      /\ q \in Dependents(ImportPathOfDir(D2))

\* A result in which a package with dependents changed in its tests only, is
\* listed in Changes, and a dependent of it is in AllChanges for another
\* change.
C6_Witness ==
  /\ Success
  /\ \E D \in PackageDirs :
       /\ TestOnlyChange(D)
       /\ ImportPathOfDir(D) \in ImportPaths(cp.Changes)
       /\ Dependents(ImportPathOfDir(D)) \cap ImportPaths(cp.AllChanges) # {}
       /\ Dependents(ImportPathOfDir(D)) \ DOMAIN changed # {}

\* d is a loaded package that is not classified deleted.
StillExists(d) ==
  d \in DOMAIN packager.forward /\ ~(d \in DOMAIN changed /\ changed[d])

\* The deleted package P as ChangedPackages lists it.
Bare(P) == [ImportPath |-> P, Dir |-> ""]

\* C7 as claimed: a package classified deleted is in Changes with an empty
\* Dir and is never looked up, every dependent of it that still exists is in
\* its Dependencies list with a non-empty Dir, and a deleted package that the
\* traversal from another changed package reached is in that package's list
\* with an empty Dir.
C7_Original ==
  Success =>
    \A P \in DOMAIN changed :
      changed[P] =>
        /\ Bare(P) \in Range(cp.Changes)
        /\ P \notin lookups
        /\ \A d \in Dependents(P) :
             StillExists(d) =>
               \E pkg \in Range(DependenciesOf(P)) :
                 pkg.ImportPath = d /\ pkg.Dir # ""
        /\ \A c \in DOMAIN paths :
             (c # P /\ P \in DOMAIN paths[c]) => Bare(P) \in Range(DependenciesOf(c))

\* C7, amended: a package classified deleted is never looked up; when it
\* passes the prefix filter it is in Changes with an empty Dir; when it is not
\* classified test-only, every dependent of it that still exists and passes
\* the prefix filter is in its Dependencies list with a non-empty Dir; and a
\* deleted package passing the filter that the traversal from another changed
\* package reached is in that package's list with an empty Dir.
C7_Deleted ==
  \A P \in DOMAIN changed :
    changed[P] =>
      /\ P \notin lookups
      /\ Success =>
           /\ PrefixOK(P) => Bare(P) \in Range(cp.Changes)
           /\ P \notin onlyTestPackagesChanged =>
                \A d \in Dependents(P) :
                  (StillExists(d) /\ PrefixOK(d)) =>
                    \E pkg \in Range(DependenciesOf(P)) :
                      pkg.ImportPath = d /\ pkg.Dir # ""
           /\ \A c \in DOMAIN paths :
                (c # P /\ P \in DOMAIN paths[c] /\ PrefixOK(P)) =>
                  Bare(P) \in Range(DependenciesOf(c))

\* A result with a deleted package in Changes, a dependent of it with a Dir in
\* its list, and a deleted package in the list of another changed package.
C7_Witness ==
  /\ Success
  /\ \E P \in DOMAIN changed :
       /\ changed[P]
       /\ Bare(P) \in Range(cp.Changes)
       /\ \E pkg \in Range(DependenciesOf(P)) : pkg.Dir # ""
  /\ \E P \in DOMAIN changed : \E c \in DOMAIN cp.Dependencies :
       changed[P] /\ c # P /\ Bare(P) \in Range(cp.Dependencies[c])

\* C8 as claimed: every package that embeds a changed file is in Changes.
C8_Original ==
  Success =>
    \A f \in ChangedFiles : \A Q \in Embedders(f) : Q \in ImportPaths(cp.Changes)

\* C8, amended: every package that embeds a changed file and passes the
\* prefix filter is in Changes, whether or not the file lies in the package's
\* own directory.
C8_Embed ==
  Success =>
    \A f \in ChangedFiles : \A Q \in Embedders(f) :
      PrefixOK(Q) => Q \in ImportPaths(cp.Changes)

\* A result under a prefix list with the embedding package in Changes for a
\* changed file in its own directory and for one in a directory below it.
C8_Witness ==
  /\ Success
  /\ prefixes # <<>>
  /\ \E f1, f2 \in ChangedFiles : \E Q \in Embedders(f1) \cap Embedders(f2) :
       /\ ImportPathOfDir(Dir(f1)) = Q
       /\ ImportPathOfDir(Dir(f2)) # Q
       /\ Q \in ImportPaths(cp.Changes)

\* The diff is not empty and all its directories are ignored for a name that
\* begins with "." or "_", none at or below a testdata directory.
OnlyIgnoredDirs ==
  DOMAIN dirs # {} /\ \A abs \in DOMAIN dirs : IgnoredNotTestdata(abs)

\* ChangedPackages has returned without error and with nothing in Changes,
\* Dependencies and AllChanges, or with the load error of the packager.
ReturnsNothing ==
  IF packager.err THEN err = "building dependency graph"
  ELSE /\ err = "nil"
       /\ cp.Changes = <<>>
       /\ DOMAIN cp.Dependencies = {}
       /\ cp.AllChanges = <<>>

\* C9 as claimed: a diff of ignored directories, none of them at or below a
\* testdata directory, contributes nothing to the result.
C9_Original ==
  (pc = "done" /\ OnlyIgnoredDirs) => ReturnsNothing

\* C9, amended: a diff of ignored directories, none of them at or below a
\* testdata directory and none of their changed files embedded by a package,
\* contributes nothing to the result.
C9_Ignored ==
  (/\ pc = "done"
   /\ OnlyIgnoredDirs
   /\ \A f \in ChangedFiles : Embedders(f) = {}) => ReturnsNothing

\* A finished run on a diff of a hidden directory with a changed Go file and
\* a directory with a leading underscore, no changed file embedded.
C9_Witness ==
  /\ Success
  /\ OnlyIgnoredDirs
  /\ \A f \in ChangedFiles : Embedders(f) = {}
  /\ \E abs \in DOMAIN dirs : hasGoFile(dirs[abs].Files)
  /\ \E abs \in DOMAIN dirs : Char(Base(abs), 1) = "_"

\* C10: with no prefix filter, a change at or below D/testdata, D unignored
\* and resolving to the package P, puts P into Changes and AllChanges; and
\* when the diff holds nothing but such directories of D and no embedded
\* file, AllChanges holds no other package.
C10_Testdata ==
  (Success /\ prefixes = <<>>) =>
    \A D \in PackageDirs :
      (/\ PackageFromDir(D).err = "nil"
       /\ \E abs \in DOMAIN dirs : AtOrBelowTestdataOf(abs, D)) =>
        LET P == PackageFromDir(D).ImportPath
        IN  /\ P \in ImportPaths(cp.Changes)
            /\ P \in ImportPaths(cp.AllChanges)
            /\ (/\ \A abs \in DOMAIN dirs : AtOrBelowTestdataOf(abs, D)
                /\ \A f \in ChangedFiles : Embedders(f) = {}) =>
                 ImportPaths(cp.AllChanges) = {P}

\* PackageFromDir is called for abs and reports "no source files" while no
\* changed file of abs is a Go file, or reports a scanner parse error.
SoftIgnored(abs) ==
  /\ abs \in DOMAIN dirs
  /\ Unignored(abs)
  /\ \/ ImportDirErr(abs) = "ErrorList"
     \/ /\ ImportDirErr(abs) = "NoGoError"
        /\ \A i \in 1..Len(dirs[abs].Files) : ~HasSuffix(dirs[abs].Files[i], ".go")

\* The diff is not empty and PackageFromDir fails softly for all its
\* directories.
OnlySoftIgnoredDirs ==
  DOMAIN dirs # {} /\ \A abs \in DOMAIN dirs : SoftIgnored(abs)

\* C11 as claimed: a diff of directories for which PackageFromDir reports
\* "no source files" with no changed Go file, or a scanner parse error,
\* contributes no package and is no failure of ChangedPackages.
C11_Original ==
  (pc = "done" /\ OnlySoftIgnoredDirs) => ReturnsNothing

\* C11, amended: a directory for which PackageFromDir reports "no source
\* files" with no changed Go file, or a scanner parse error, does not put
\* the package of its path into Changes unless a changed file is embedded by
\* it; a diff of such directories, no changed file embedded by a
\* package, contributes nothing; and PackageFromDir only fails
\* ChangedPackages for a directory that is not of this kind.
C11_SoftIgnored ==
  /\ Success =>
       \A abs \in DOMAIN dirs :
         SoftIgnored(abs) =>
           \/ findImportPath(abs).ImportPath \notin ImportPaths(cp.Changes)
           \/ \E f \in ChangedFiles : findImportPath(abs).ImportPath \in Embedders(f)
  /\ (/\ pc = "done"
      /\ OnlySoftIgnoredDirs
      /\ \A f \in ChangedFiles : Embedders(f) = {}) => ReturnsNothing
  /\ PullingFailed =>
       \E abs \in DOMAIN dirs \ todo : ~SoftIgnored(abs)

\* A successful run with nothing in the result on a diff of a directory
\* without source files and one with a parse error.
C11_Witness ==
  /\ Success
  /\ cp.AllChanges = <<>>
  /\ \E abs \in DOMAIN dirs : SoftIgnored(abs) /\ ImportDirErr(abs) = "ErrorList"
  /\ \E abs \in DOMAIN dirs : SoftIgnored(abs) /\ ImportDirErr(abs) = "NoGoError"

\* D is the directory of an existing package and its changed files are
\* non-Go files that no package embeds, not all of them named *_test.go.
NonGoChange(D) ==
  /\ D \in DOMAIN dirs
  /\ Unignored(D)
  /\ dirs[D].Exists
  /\ PackageFromDir(D).err = "nil"
  /\ \A i \in 1..Len(dirs[D].Files) :
       /\ ~HasSuffix(dirs[D].Files[i], ".go")
       /\ Embedders(Join(D, dirs[D].Files[i])) = {}
  /\ \E i \in 1..Len(dirs[D].Files) : ~HasSuffix(dirs[D].Files[i], "_test.go")

\* C12: a package whose directory changed in non-Go files only that no
\* package embeds, not all named *_test.go, is in Changes only when it embeds
\* a changed file of another directory, and in AllChanges only when it does
\* or is a dependent of another changed package.
C12_NonGoFiles ==
  Success =>
    \A D \in DOMAIN dirs :
      NonGoChange(D) =>
        LET P == PackageFromDir(D).ImportPath
            embeds == \E f \in ChangedFiles : P \in Embedders(f)
        IN  /\ P \in ImportPaths(cp.Changes) => embeds
            /\ P \in ImportPaths(cp.AllChanges) =>
                 \/ embeds
                 \/ \E c \in DOMAIN changed \ {P} : P \in Dependents(c)

\* A result on a diff with such a directory whose package is not in Changes
\* and is in AllChanges as a dependent of another changed package.
C12_Witness ==
  /\ Success
  /\ \E D \in DOMAIN dirs :
       /\ NonGoChange(D)
       /\ PackageFromDir(D).ImportPath \notin ImportPaths(cp.Changes)
       /\ PackageFromDir(D).ImportPath \in ImportPaths(cp.AllChanges)

(***************************************************************************)
(* Packages as JSON (MarshalJSON, UnmarshalJSON)                           *)
(*                                                                         *)
(* encoding/json is modelled by the document it writes and reads: the      *)
(* members of packagesJSON that are present (omitempty leaves out an empty *)
(* map or slice) and their values, a nil slice being written as null.      *)
(***************************************************************************)

\* stringify with the directories in place of the import paths.
stringifyDirs(pkgs) == [i \in 1..Len(pkgs) |-> pkgs[i].Dir]

stringify(pkgs) == [i \in 1..Len(pkgs) |-> pkgs[i].ImportPath]

mapify(pkgs) == [key \in DOMAIN pkgs |-> stringify(pkgs[key])]

\* json.Marshal of a []string that stringify returned: null when nothing was
\* appended to it.
MarshalStrings(sl) == [null |-> sl = <<>>, elems |-> sl]

\* json.Unmarshal into a []string.
UnmarshalStrings(v) == IF v.null THEN <<>> ELSE v.elems

\* json.Marshal of the packagesJSON s.
MarshalPackagesJSON(s) ==
  [members |-> {m \in {"dependencies", "changes", "all_changes"} :
                  \/ m = "dependencies" /\ DOMAIN s.Dependencies # {}
                  \/ m = "changes" /\ s.Changes # <<>>
                  \/ m = "all_changes" /\ s.AllChanges # <<>>},
   dependencies |-> [k \in DOMAIN s.Dependencies |->
                       MarshalStrings(s.Dependencies[k])],
   changes |-> MarshalStrings(s.Changes),
   all_changes |-> MarshalStrings(s.AllChanges)]

\* json.Unmarshal of the document b into a new packagesJSON.
UnmarshalPackagesJSON(b) ==
  [Dependencies |-> IF "dependencies" \in b.members
                    THEN [k \in DOMAIN b.dependencies |->
                            UnmarshalStrings(b.dependencies[k])]
                    ELSE EmptyMap,
   Changes |-> IF "changes" \in b.members
               THEN UnmarshalStrings(b.changes) ELSE <<>>,
   AllChanges |-> IF "all_changes" \in b.members
                  THEN UnmarshalStrings(b.all_changes) ELSE <<>>]

MarshalJSON(p) ==
  MarshalPackagesJSON([Dependencies |-> mapify(p.Dependencies),
                       Changes |-> stringify(p.Changes),
                       AllChanges |-> stringify(p.AllChanges)])

\* The packages UnmarshalJSON makes of a list of import paths.
PackagesOf(v) == [i \in 1..Len(v) |-> [ImportPath |-> v[i], Dir |-> ""]]

\* UnmarshalJSON with the receiver p: Dependencies gets the keys that have a
\* package to append, Changes and AllChanges are appended to.
UnmarshalJSON(p, b) ==
  LET s == UnmarshalPackagesJSON(b)
  IN  [Dependencies |-> [k \in {q \in DOMAIN s.Dependencies :
                                  s.Dependencies[q] # <<>>} |->
                           PackagesOf(s.Dependencies[k])],
       Changes |-> p.Changes \o PackagesOf(s.Changes),
       AllChanges |-> p.AllChanges \o PackagesOf(s.AllChanges)]

\* The most packages a list of a Packages value holds.
MaxPackages == 1

\* The packages of the values that are marshalled.
JSONPackages ==
  { [ImportPath |-> "m/a", Dir |-> ""],
    [ImportPath |-> "m/b", Dir |-> ""],
    [ImportPath |-> "m/a", Dir |-> "/r/a"] }

\* The lists of at most MaxPackages packages.
JSONLists == UNION {[1..n -> JSONPackages] : n \in 0..MaxPackages}

\* The Packages values that are marshalled.
JSONValues ==
  UNION {[Dependencies : [K -> JSONLists], Changes : JSONLists,
          AllChanges : JSONLists] : K \in SUBSET {"m/a", "m/b"}}

\* The zero value new(Packages) points to.
NewPackages == [Dependencies |-> EmptyMap, Changes |-> <<>>, AllChanges |-> <<>>]

InitJSON ==
  /\ NoGTA
  /\ gta = [pc |-> "idle"]
  /\ git = [pc |-> "idle"]
  /\ trav = [pc |-> "idle"]
  /\ pctx = [pc |-> "idle"]
  /\ ord = [pc |-> "idle"]
  /\ load = [pc |-> "idle"]
  /\ rev = [pc |-> "idle"]
  /\ find = [pc |-> "idle"]
  /\ \E x \in JSONValues : json = [pc |-> "new", want |-> x]

\* b, err := json.Marshal(want)
Marshal ==
  /\ json.pc = "new"
  /\ json' = [pc |-> "marshalled", want |-> json.want, b |-> MarshalJSON(json.want)]
  /\ UNCHANGED <<gtaVars, gta, git, trav, pctx, ord, load, rev, find>>

\* got := new(Packages); err = json.Unmarshal(b, got)
Unmarshal ==
  /\ json.pc = "marshalled"
  /\ json' = [pc |-> "unmarshalled", want |-> json.want, b |-> json.b,
              got |-> UnmarshalJSON(NewPackages, json.b)]
  /\ UNCHANGED <<gtaVars, gta, git, trav, pctx, ord, load, rev, find>>

NextJSON == Marshal \/ Unmarshal

SpecJSON == InitJSON /\ [][NextJSON]_vars

\* The packages of all lists of the Packages value x.
AllPackagesOf(x) ==
  Range(x.Changes) \cup Range(x.AllChanges) \cup
  UNION {Range(x.Dependencies[k]) : k \in DOMAIN x.Dependencies}

\* C13 as claimed: unmarshalling the JSON of a Packages value gives a value
\* with the same Dependencies keys and lists, Changes and AllChanges.
C13_Original ==
  json.pc = "unmarshalled" => json.got = json.want

\* C13, amended: unmarshalling the JSON of a Packages value whose packages
\* have an empty Dir and whose Dependencies lists are not empty gives a value
\* with the same Dependencies keys and lists, Changes and AllChanges.
C13_RoundTrip ==
  (/\ json.pc = "unmarshalled"
   /\ \A pkg \in AllPackagesOf(json.want) : pkg.Dir = ""
   /\ \A k \in DOMAIN json.want.Dependencies : json.want.Dependencies[k] # <<>>)
    => json.got = json.want

\* A value with two Dependencies keys, Changes and AllChanges read back.
C13_Witness ==
  /\ json.pc = "unmarshalled"
  /\ DOMAIN json.want.Dependencies = {"m/a", "m/b"}
  /\ json.want.Changes # <<>>
  /\ json.want.AllChanges # <<>>
  /\ \A pkg \in AllPackagesOf(json.want) : pkg.Dir = ""
  /\ \A k \in DOMAIN json.want.Dependencies : json.want.Dependencies[k] # <<>>
  /\ json.got = json.want

(***************************************************************************)
(* New, the options, and the entry of ChangedPackages                      *)
(*                                                                         *)
(* A differ or packager is "nil" or the name of an implementation; "git"   *)
(* is the differ of NewGitDiffer and "default" the packager of             *)
(* NewPackager.  calls holds the methods of the differ and of the packager *)
(* that ChangedPackages has called.                                        *)
(***************************************************************************)

\* The options given to New.
Options ==
  { [opt |-> "SetDiffer", arg |-> "nil"], [opt |-> "SetDiffer", arg |-> "d"],
    [opt |-> "SetPackager", arg |-> "nil"], [opt |-> "SetPackager", arg |-> "p"],
    [opt |-> "SetPrefixes", arg |-> "m/a"] }

\* The most options given to New.
MaxOpts == 2

\* The zero value of GTA.
ZeroGTA == [differ |-> "nil", packager |-> "nil", prefixes |-> <<>>, roots |-> <<>>]

\* A GTA is made by New(opts...), with toplevel succeeding or failing, or is
\* the zero value of the exported type.
InitNew ==
  /\ NoGTA
  /\ json = [pc |-> "idle"]
  /\ git = [pc |-> "idle"]
  /\ trav = [pc |-> "idle"]
  /\ pctx = [pc |-> "idle"]
  /\ ord = [pc |-> "idle"]
  /\ load = [pc |-> "idle"]
  /\ rev = [pc |-> "idle"]
  /\ find = [pc |-> "idle"]
  /\ \/ \E n \in 0..MaxOpts : \E opts \in [1..n -> Options] : \E ok \in BOOLEAN :
          gta = [pc |-> "opts", new |-> TRUE, opts |-> opts, toplevelOK |-> ok,
                 g |-> [ZeroGTA EXCEPT !.differ = "git"],
                 applied |-> {}, calls |-> {}, err |-> "nil"]
     \/ gta = [pc |-> "made", new |-> FALSE, opts |-> <<>>, toplevelOK |-> TRUE,
               g |-> ZeroGTA, applied |-> {}, calls |-> {}, err |-> "nil"]

\* One option function applied to the GTA g.
ApplyOpt(g, o) ==
  IF o.opt = "SetDiffer" THEN [g EXCEPT !.differ = o.arg]
  ELSE IF o.opt = "SetPackager" THEN [g EXCEPT !.packager = o.arg]
  ELSE [g EXCEPT !.prefixes = <<o.arg>>]

\* New: one iteration of the range over opts.
NewOption ==
  /\ gta.pc = "opts"
  /\ gta.opts # <<>>
  /\ gta' = [gta EXCEPT !.g = ApplyOpt(@, Head(gta.opts)),
                        !.applied = @ \cup {Head(gta.opts)},
                        !.opts = Tail(@)]
  /\ UNCHANGED <<gtaVars, json, git, trav, pctx, ord, load, rev, find>>

\* New after the options: the roots and the default packager.
NewReturn ==
  /\ gta.pc = "opts"
  /\ gta.opts = <<>>
  /\ IF ~gta.toplevelOK
     THEN gta' = [gta EXCEPT !.pc = "failed",
                             !.err = "could not get top level directory"]
     ELSE gta' = [gta EXCEPT !.pc = "made",
                             !.g = [@ EXCEPT !.roots = roots,
                                             !.packager = IF @ = "nil"
                                                          THEN "default" ELSE @]]
  /\ UNCHANGED <<gtaVars, json, git, trav, pctx, ord, load, rev, find>>

\* markedPackages without its two tests.
EntryErrorNone(differ, packager0) == "nil"

\* The error of the two tests at the entry of markedPackages.
EntryError(differ, packager0) ==
  IF differ = "nil" THEN "ErrNoDiffer"
  ELSE IF packager0 = "nil" THEN "ErrNoPackager"
  ELSE "nil"

\* ChangedPackages up to the call of g.differ.Diff in markedPackages.
ChangedPackagesEntry ==
  /\ gta.pc = "made"
  /\ LET e == EntryError(gta.g.differ, gta.g.packager)
     IN  IF e # "nil"
         THEN gta' = [gta EXCEPT !.pc = "returned", !.err = e]
         ELSE gta' = [gta EXCEPT !.pc = "diffing",
                                 !.calls = @ \cup {"Differ.Diff"}]
  /\ UNCHANGED <<gtaVars, json, git, trav, pctx, ord, load, rev, find>>

NextNew == NewOption \/ NewReturn \/ ChangedPackagesEntry

SpecNew == InitNew /\ [][NextNew]_vars

\* The packager the options left on the GTA.
PackagerOfOptions ==
  IF [opt |-> "SetPackager", arg |-> "p"] \in gta.applied
     /\ gta.g.packager = "p" THEN "p" ELSE "nil"

\* ChangedPackages has been entered.
Entered == gta.pc \in {"returned", "diffing"}

\* C14 as claimed: ChangedPackages fails with ErrNoDiffer when no differ is
\* set and with ErrNoPackager when the options have left no packager, before
\* any call of the differ or the packager.
C14_Original ==
  Entered =>
    /\ gta.g.differ = "nil" => gta.err = "ErrNoDiffer" /\ gta.calls = {}
    /\ PackagerOfOptions = "nil" => gta.err = "ErrNoPackager" /\ gta.calls = {}

\* C14, amended: ChangedPackages fails with ErrNoDiffer when the GTA has no
\* differ, before any call of the differ or the packager, also when it has no
\* packager either; it fails with ErrNoPackager only when the GTA has a
\* differ and no packager, and a GTA that New returned has a packager, the
\* default one when the options left none.
C14_NoDiffer ==
  /\ Entered =>
       /\ gta.g.differ = "nil" <=> gta.err = "ErrNoDiffer"
       /\ gta.err = "ErrNoPackager" <=>
            (gta.g.differ # "nil" /\ gta.g.packager = "nil")
       /\ gta.err # "nil" => gta.calls = {}
  /\ (gta.pc \in {"made", "returned", "diffing"} /\ gta.new) =>
       /\ gta.g.packager # "nil"
       /\ PackagerOfOptions = "nil" => gta.g.packager = "default"
       /\ gta.err # "ErrNoPackager"

\* ChangedPackages of a GTA that New made with SetDiffer(nil) and
\* SetPackager(nil) has returned ErrNoDiffer.
C14_Witness ==
  /\ gta.pc = "returned"
  /\ gta.new
  /\ gta.applied = {[opt |-> "SetDiffer", arg |-> "nil"],
                    [opt |-> "SetPackager", arg |-> "nil"]}
  /\ gta.err = "ErrNoDiffer"
  /\ gta.calls = {}

(***************************************************************************)
(* The git differ (NewGitDiffer, differ.Diff, differ.DiffFiles, git.diff)  *)
(*                                                                         *)
(* Goroutines call Diff and DiffFiles of one git differ.  sync.Once is     *)
(* modelled by its done flag and its mutex; the function given to Do runs  *)
(* the git commands, whose outcome may differ from run to run.             *)
(***************************************************************************)

\* The goroutines that call the differ.
Callers == {"c1", "c2"}

\* The most calls of Diff and DiffFiles made in all.
MaxCalls == 3

\* What one run of the git commands can produce: the changed files or an
\* error.
GitOutcomes ==
  { [files |-> {"/r/a/a.go", "/r/b/b.go"}, err |-> "nil"],
    [files |-> {"/r/a/a.go"}, err |-> "nil"],
    [files |-> {}, err |-> "exit status 128"] }

\* NewGitDiffer: changedFiles and diffErr are nil, onceDiff is unused.
InitDiff ==
  /\ NoGTA
  /\ json = [pc |-> "idle"]
  /\ gta = [pc |-> "idle"]
  /\ trav = [pc |-> "idle"]
  /\ pctx = [pc |-> "idle"]
  /\ ord = [pc |-> "idle"]
  /\ load = [pc |-> "idle"]
  /\ rev = [pc |-> "idle"]
  /\ find = [pc |-> "idle"]
  /\ git = [pc |-> "ready",
            done |-> FALSE,          \* onceDiff: f has returned
            m |-> "none",            \* onceDiff: the holder of its mutex
            changedFiles |-> {},
            diffErr |-> "nil",
            runs |-> 0,              \* the runs of the git commands
            calls |-> 0,
            at |-> [c \in Callers |-> "idle"],
            method |-> [c \in Callers |-> "none"],
            blocked |-> [c \in Callers |-> FALSE],
            seen |-> [c \in Callers |-> {}]]

\* Goroutine c calls Diff or DiffFiles, which calls d.diff, which calls
\* g.onceDiff.Do.
Call(c, method) ==
  /\ git.pc = "ready"
  /\ git.at[c] = "idle"
  /\ git.calls < MaxCalls
  /\ git' = [git EXCEPT !.at[c] = "Do", !.method[c] = method,
                        !.blocked[c] = FALSE, !.calls = @ + 1]
  /\ UNCHANGED <<gtaVars, json, gta, trav, pctx, ord, load, rev, find>>

\* Once.Do: the fast path when done is set, else doSlow.
Do(c) ==
  /\ git.pc = "ready"
  /\ git.at[c] = "Do"
  /\ git' = [git EXCEPT !.at[c] = IF git.done THEN "return" ELSE "Lock"]
  /\ UNCHANGED <<gtaVars, json, gta, trav, pctx, ord, load, rev, find>>

\* Once.doSlow: o.m.Lock(), waiting while another goroutine holds the mutex.
Lock(c) ==
  /\ git.pc = "ready"
  /\ git.at[c] = "Lock"
  /\ IF git.m = "none"
     THEN git' = [git EXCEPT !.m = c, !.at[c] = "locked"]
     ELSE /\ ~git.blocked[c]
          /\ git' = [git EXCEPT !.blocked[c] = TRUE]
  /\ UNCHANGED <<gtaVars, json, gta, trav, pctx, ord, load, rev, find>>

\* Once.doSlow running f whether or not done is set.
mustRunAlways(done) == TRUE

\* Once.doSlow: f is run when done is not set.
mustRun(done) == ~done

\* Once.doSlow with the mutex held: the function of git.diff runs the git
\* commands and stores the files or the error.
DoSlow(c) ==
  /\ git.pc = "ready"
  /\ git.at[c] = "locked"
  /\ IF mustRun(git.done)
     THEN \E out \in GitOutcomes :
            git' = [git EXCEPT !.runs = @ + 1,
                               !.changedFiles = IF out.err = "nil"
                                                THEN out.files ELSE @,
                               !.diffErr = out.err,
                               !.at[c] = "ran"]
     ELSE git' = [git EXCEPT !.at[c] = "Unlock"]
  /\ UNCHANGED <<gtaVars, json, gta, trav, pctx, ord, load, rev, find>>

\* Once.doSlow: the deferred o.done.Store(1).
StoreDone(c) ==
  /\ git.pc = "ready"
  /\ git.at[c] = "ran"
  /\ git' = [git EXCEPT !.done = TRUE, !.at[c] = "Unlock"]
  /\ UNCHANGED <<gtaVars, json, gta, trav, pctx, ord, load, rev, find>>

\* Once.doSlow: the deferred o.m.Unlock().
Unlock(c) ==
  /\ git.pc = "ready"
  /\ git.at[c] = "Unlock"
  /\ git' = [git EXCEPT !.m = "none", !.at[c] = "return"]
  /\ UNCHANGED <<gtaVars, json, gta, trav, pctx, ord, load, rev, find>>

\* The keys of the map Diff or DiffFiles makes of the files of d.diff.
KeysOf(method, files) ==
  IF method = "Diff" THEN {Dir(abs) : abs \in files} ELSE files

\* git.diff returns g.changedFiles and g.diffErr, and Diff or DiffFiles
\* returns the error or its map.
Return(c) ==
  /\ git.pc = "ready"
  /\ git.at[c] = "return"
  /\ git' = [git EXCEPT
               !.at[c] = "idle",
               !.seen[c] = @ \cup
                  {[method |-> git.method[c],
                    files |-> git.changedFiles,
                    keys |-> IF git.diffErr # "nil" THEN {}
                             ELSE KeysOf(git.method[c], git.changedFiles),
                    err |-> git.diffErr,
                    waited |-> git.blocked[c]]}]
  /\ UNCHANGED <<gtaVars, json, gta, trav, pctx, ord, load, rev, find>>

NextDiff ==
  \E c \in Callers :
    \/ \E method \in {"Diff", "DiffFiles"} : Call(c, method)
    \/ Do(c)
    \/ Lock(c)
    \/ DoSlow(c)
    \/ StoreDone(c)
    \/ Unlock(c)
    \/ Return(c)

SpecDiff == InitDiff /\ [][NextDiff]_vars

\* What the callers have seen so far.
AllSeen == UNION {git.seen[c] : c \in Callers}

\* C15: the git commands of one git differ are run at most once, and all
\* calls of Diff and DiffFiles, the racing first ones and those after a
\* failure included, see the same changed files and the same error.
C15_Once ==
  git.pc = "ready" =>
    /\ git.runs <= 1
    /\ \A o1, o2 \in AllSeen : o1.files = o2.files /\ o1.err = o2.err
    /\ \A o \in AllSeen :
         /\ git.runs = 1
         /\ o.files = git.changedFiles /\ o.err = git.diffErr
         /\ o.keys = IF o.err # "nil" THEN {} ELSE KeysOf(o.method, o.files)

\* The git commands have failed, one goroutine has waited for the other in
\* its first call, and both have seen the error, one of them twice.
C15_Witness ==
  /\ git.pc = "ready"
  /\ git.runs = 1
  /\ git.diffErr # "nil"
  /\ \A c \in Callers : git.seen[c] # {}
  /\ \E o \in AllSeen : o.waited
  /\ \E c \in Callers : Cardinality(git.seen[c]) >= 2

(***************************************************************************)
(* Graph.Traverse, call by call                                            *)
(*                                                                         *)
(* stack holds the calls of Traverse that have not returned, the current   *)
(* one last; a call is at its entry or in its range over the edges, of     *)
(* which edges are still to come.  expanded counts how often a node was    *)
(* marked and its edges taken.                                             *)
(***************************************************************************)

\* The nodes of the graphs that are traversed.
Nodes == {"a", "b", "c"}

\* The most edges of such a graph.
MaxEdges == 3

\* The most calls of Traverse that are followed on the stack.
MaxDepth == 5

\* The graphs: the nodes with an edge are the keys.
Graphs ==
  { [n \in {e[1] : e \in E} |-> {e[2] : e \in {d \in E : d[1] = n}}] :
    E \in {F \in SUBSET (Nodes \X Nodes) : Cardinality(F) <= MaxEdges} }

\* The test of Traverse finding no node visited.
visitedNever(mark, node) == FALSE

\* if visited, ok := mark[node]; visited && ok
visited(mark, node) == node \in DOMAIN mark /\ mark[node]

\* The edges of a node without any.
edgesOfNone(g, node) == {}

\* if edges, ok := g.graph[node]; ok: the edges the range visits.
edgesOf(g, node) == IF node \in DOMAIN g THEN g[node] ELSE {}

\* got := map[string]bool{}; graph.Traverse(start, got)
InitTraverse ==
  /\ NoGTA
  /\ json = [pc |-> "idle"]
  /\ gta = [pc |-> "idle"]
  /\ git = [pc |-> "idle"]
  /\ pctx = [pc |-> "idle"]
  /\ ord = [pc |-> "idle"]
  /\ load = [pc |-> "idle"]
  /\ rev = [pc |-> "idle"]
  /\ find = [pc |-> "idle"]
  /\ \E g \in Graphs : \E start \in Nodes :
       trav = [pc |-> "running", graph |-> g, start |-> start,
               mark |-> EmptyMap,
               stack |-> <<[node |-> start, entered |-> FALSE, edges |-> {}]>>,
               expanded |-> [n \in Nodes |-> 0]]

\* The entry of the current call: return when the node is visited, else mark
\* it and start the range over its edges.
TraverseEnter ==
  /\ trav.pc = "running"
  /\ trav.stack # <<>>
  /\ LET top == trav.stack[Len(trav.stack)]
         rest == SubSeq(trav.stack, 1, Len(trav.stack) - 1)
     IN  /\ ~top.entered
         /\ IF visited(trav.mark, top.node)
            THEN trav' = [trav EXCEPT !.stack = rest]
            ELSE trav' = [trav EXCEPT
                            !.mark = (top.node :> TRUE) @@ @,
                            !.expanded[top.node] = @ + 1,
                            !.stack = rest \o
                               <<[node |-> top.node, entered |-> TRUE,
                                  edges |-> edgesOf(trav.graph, top.node)]>>]
  /\ UNCHANGED <<gtaVars, json, gta, git, pctx, ord, load, rev, find>>

\* One iteration of the range over the edges: the recursive call.
TraverseEdge ==
  /\ trav.pc = "running"
  /\ trav.stack # <<>>
  /\ Len(trav.stack) < MaxDepth
  /\ LET top == trav.stack[Len(trav.stack)]
         rest == SubSeq(trav.stack, 1, Len(trav.stack) - 1)
     IN  /\ top.entered
         /\ \E edge \in top.edges :
              trav' = [trav EXCEPT
                         !.stack = rest \o
                            <<[top EXCEPT !.edges = @ \ {edge}],
                              [node |-> edge, entered |-> FALSE, edges |-> {}]>>]
  /\ UNCHANGED <<gtaVars, json, gta, git, pctx, ord, load, rev, find>>

\* The end of the range: the current call returns.
TraverseReturn ==
  /\ trav.pc = "running"
  /\ trav.stack # <<>>
  /\ LET top == trav.stack[Len(trav.stack)]
     IN  /\ top.entered
         /\ top.edges = {}
         /\ trav' = [trav EXCEPT !.stack = SubSeq(@, 1, Len(@) - 1)]
  /\ UNCHANGED <<gtaVars, json, gta, git, pctx, ord, load, rev, find>>

\* The first call has returned.
TraverseDone ==
  /\ trav.pc = "running"
  /\ trav.stack = <<>>
  /\ trav' = [trav EXCEPT !.pc = "done"]
  /\ UNCHANGED <<gtaVars, json, gta, git, pctx, ord, load, rev, find>>

NextTraverse == TraverseEnter \/ TraverseEdge \/ TraverseReturn \/ TraverseDone

SpecTraverse == InitTraverse /\ [][NextTraverse]_vars

\* The goroutine that called Traverse keeps running.
SpecTraverseFair == SpecTraverse /\ WF_vars(NextTraverse)

\* The nodes that a path of edges of g leads to from the nodes of S, S
\* included.
RECURSIVE Reach(_, _)
Reach(g, S) ==
  LET T == S \cup UNION {g[n] : n \in S \cap DOMAIN g}
  IN  IF T = S THEN S ELSE Reach(g, T)

\* C16: Traverse(start, mark) with an empty mark leaves in mark exactly the
\* nodes reachable from start, start included, each with true; for a start
\* that is no key of the graph that is start alone.
C16_Reachable ==
  trav.pc = "done" =>
    /\ DOMAIN trav.mark = Reach(trav.graph, {trav.start})
    /\ \A n \in DOMAIN trav.mark : trav.mark[n]
    /\ trav.start \notin DOMAIN trav.graph => trav.mark = (trav.start :> TRUE)
    /\ DOMAIN trav.mark = Traverse(trav.graph, trav.start, {})

\* Traverse has returned from a graph with a cycle and a node that is not
\* reachable from start.
C16_Witness ==
  /\ trav.pc = "done"
  /\ Cardinality(DOMAIN trav.mark) = 2
  /\ \A n \in DOMAIN trav.mark :
       trav.start \in Reach(trav.graph, edgesOf(trav.graph, n))
  /\ \E n \in DOMAIN trav.graph : n \notin DOMAIN trav.mark

\* C17: Traverse returns on every graph, with cycles and self-loops too, and
\* marks and expands every node at most once.
C17_Terminates ==
  /\ <>(trav.pc = "done")
  /\ [](trav.pc # "idle" => \A n \in Nodes : trav.expanded[n] <= 1)

\* Traverse has returned from a graph with a self-loop and a cycle of two
\* nodes, every node expanded once.
C17_Witness ==
  /\ trav.pc = "done"
  /\ \E n \in DOMAIN trav.graph : n \in trav.graph[n]
  /\ \E n, k \in DOMAIN trav.graph :
       n # k /\ k \in trav.graph[n] /\ n \in trav.graph[k]
  /\ \A n \in DOMAIN trav.mark : trav.expanded[n] = 1

(***************************************************************************)
(* The default packager, method by method                                  *)
(*                                                                         *)
(* newPackager has returned the packager; last is the last call made to it *)
(* and what it returned, packages the field p.packages.                    *)
(***************************************************************************)

\* The most calls made to the packager.
MaxPackagerCalls == 2

\* The arguments of the calls.
CallDirs == {"/r/a", "/r/d", "/r/e", "/r/f", "/r/g"}
CallImportPaths == {"m/a", "m/b", "m/x", "m/c/vendor/m/a", "m/c/vendor/m/x"}
CallFiles == {"/r/a/readme.md", "/r/a/a.go"}

\* A call and what it returned.
Returned(method, arg, importPath, list, g, e) ==
  [method |-> method, arg |-> arg, ImportPath |-> importPath, list |-> list,
   graph |-> g, err |-> e]

\* newPackager(cfg, ctx, patterns) with the outcome of dependencyGraph.
InitPackager ==
  /\ NoRun
  /\ packager \in Range(Packagers)
  /\ json = [pc |-> "idle"]
  /\ gta = [pc |-> "idle"]
  /\ git = [pc |-> "idle"]
  /\ trav = [pc |-> "idle"]
  /\ pctx = [pc |-> "ready", calls |-> 0, packages |-> {},
             last |-> Returned("newPackager", "", "", <<>>, EmptyMap, "nil")]
  /\ ord = [pc |-> "idle"]
  /\ load = [pc |-> "idle"]
  /\ rev = [pc |-> "idle"]
  /\ find = [pc |-> "idle"]

CallPackageFromDir(dir) ==
  /\ pctx.pc = "ready"
  /\ pctx.calls < MaxPackagerCalls
  /\ LET pkg2 == PackageFromDir(dir)
     IN  pctx' = [pctx EXCEPT
                    !.calls = @ + 1,
                    !.packages = @ \cup {pkg2.ImportPath},
                    !.last = Returned("PackageFromDir", dir, pkg2.ImportPath,
                                      <<>>, EmptyMap, pkg2.err)]
  /\ UNCHANGED <<gtaVars, json, gta, git, trav, ord, load, rev, find>>

CallPackageFromEmptyDir(dir) ==
  /\ pctx.pc = "ready"
  /\ pctx.calls < MaxPackagerCalls
  /\ LET pkg2 == PackageFromEmptyDir(dir)
     IN  pctx' = [pctx EXCEPT
                    !.calls = @ + 1,
                    !.packages = @ \cup {pkg2.ImportPath},
                    !.last = Returned("PackageFromEmptyDir", dir,
                                      pkg2.ImportPath, <<>>, EmptyMap, pkg2.err)]
  /\ UNCHANGED <<gtaVars, json, gta, git, trav, ord, load, rev, find>>

CallPackageFromImport(importPath) ==
  /\ pctx.pc = "ready"
  /\ pctx.calls < MaxPackagerCalls
  /\ LET pkg == PackageFromImport(packager, importPath)
     IN  pctx' = [pctx EXCEPT
                    !.calls = @ + 1,
                    !.packages = IF pkg.err = "nil"
                                 THEN @ \cup {pkg.ImportPath} ELSE @,
                    !.last = Returned("PackageFromImport", importPath,
                                      pkg.ImportPath, <<>>, EmptyMap, pkg.err)]
  /\ UNCHANGED <<gtaVars, json, gta, git, trav, ord, load, rev, find>>

CallEmbeddedBy(fn) ==
  /\ pctx.pc = "ready"
  /\ pctx.calls < MaxPackagerCalls
  /\ pctx' = [pctx EXCEPT
                !.calls = @ + 1,
                !.last = Returned("EmbeddedBy", fn, "",
                                  EmbeddedBy(packager, fn), EmptyMap, "nil")]
  /\ UNCHANGED <<gtaVars, json, gta, git, trav, ord, load, rev, find>>

CallDependentGraph ==
  /\ pctx.pc = "ready"
  /\ pctx.calls < MaxPackagerCalls
  /\ LET e == DependentGraphErr(packager)
     IN  pctx' = [pctx EXCEPT
                    !.calls = @ + 1,
                    !.last = Returned("DependentGraph", "", "", <<>>,
                                      IF e = "nil" THEN DependentGraph(packager)
                                      ELSE EmptyMap, e)]
  /\ UNCHANGED <<gtaVars, json, gta, git, trav, ord, load, rev, find>>

NextPackager ==
  \/ \E dir \in CallDirs : CallPackageFromDir(dir)
  \/ \E dir \in CallDirs : CallPackageFromEmptyDir(dir)
  \/ \E importPath \in CallImportPaths : CallPackageFromImport(importPath)
  \/ \E fn \in CallFiles : CallEmbeddedBy(fn)
  \/ CallDependentGraph

SpecPackager == InitPackager /\ [][NextPackager]_vars

C19_LazyLoadError ==
  pctx.pc = "ready" =>
    IF pctx.last.method = "DependentGraph"
    THEN IF packager.err
         THEN pctx.last.err = "loading packages" /\ pctx.last.graph = EmptyMap
         ELSE pctx.last.err = "nil" /\ pctx.last.graph = packager.reverse
    ELSE pctx.last.err # "loading packages"

\* After another call to a packager with a load error, DependentGraph has
\* returned the error.
C19_Witness ==
  /\ pctx.pc = "ready"
  /\ packager.err
  /\ pctx.calls = 2
  /\ pctx.packages # {}
  /\ pctx.last.method = "DependentGraph"
  /\ pctx.last.err = "loading packages"

\* The changed files of D hold a Go file.
ChangedGoFile(D) ==
  \E i \in 1..Len(dirs[D].Files) : HasSuffix(dirs[D].Files[i], ".go")

\* The range over dirs has visited D, an unignored directory with a changed
\* Go file whose path resolves to the import path P.
VisitedWithGoFile(D, P) ==
  /\ D \in DOMAIN dirs \ todo
  /\ Unignored(D)
  /\ ChangedGoFile(D)
  /\ ~findImportPath(D).notFound
  /\ findImportPath(D).ImportPath = P

\* P embeds no changed file.
EmbedsNoChange(P) == \A f \in ChangedFiles : P \notin Embedders(f)

\* The packages were loaded and ChangedPackages is classifying or has done
\* so.
Classifying == pc # "idle" /\ ~packager.err

\* C20 as claimed: a changed package is tagged deleted exactly when its
\* directory does not exist on disk and the changed files of the directory
\* hold a Go file.
C20_Original ==
  Classifying =>
    \A P \in DOMAIN changed :
      changed[P] <=> \E D \in DOMAIN dirs : VisitedWithGoFile(D, P) /\ ~exists(D)

\* C20, amended: a changed package that embeds no changed file is tagged
\* deleted exactly when the changed files of its directory hold a Go file
\* and the directory does not exist on disk or exists without buildable Go
\* files; and the package of every such directory is tagged deleted.
C20_Deleted ==
  Classifying =>
    /\ \A P \in DOMAIN changed :
         EmbedsNoChange(P) =>
           (changed[P] <=>
              \E D \in DOMAIN dirs :
                /\ VisitedWithGoFile(D, P)
                /\ ~exists(D) \/ ImportDirErr(D) = "NoGoError")
    /\ \A D \in DOMAIN dirs :
         (/\ VisitedWithGoFile(D, findImportPath(D).ImportPath)
          /\ ~exists(D) \/ ImportDirErr(D) = "NoGoError"
          /\ EmbedsNoChange(findImportPath(D).ImportPath)) =>
           /\ findImportPath(D).ImportPath \in DOMAIN changed
           /\ changed[findImportPath(D).ImportPath]

\* The classification has tagged one package deleted whose directory is
\* gone, another whose directory exists without buildable Go files.
C20_Witness ==
  /\ Classifying
  /\ todo = {}
  /\ \E D1, D2 \in DOMAIN dirs :
       /\ ~exists(D1) /\ exists(D2)
       /\ VisitedWithGoFile(D1, findImportPath(D1).ImportPath)
       /\ VisitedWithGoFile(D2, findImportPath(D2).ImportPath)
       /\ findImportPath(D1).ImportPath \in DOMAIN changed
       /\ findImportPath(D2).ImportPath \in DOMAIN changed
       /\ changed[findImportPath(D1).ImportPath]
       /\ changed[findImportPath(D2).ImportPath]

(***************************************************************************)
(* The order of iteration                                                  *)
(***************************************************************************)

\* ChangedPackages is called a second time on the same GTA, with the same
\* differ output: what the first call returned is kept, and the second call
\* starts as the first one did.
CallAgain ==
  /\ pc = "done"
  /\ ord.pc = "idle"
  /\ ord' = [pc |-> "again", cp |-> cp, err |-> err]
  /\ pc' = "dirs"
  /\ todo' = DOMAIN dirs
  /\ changed' = EmptyMap
  /\ embeddedChanged' = {}
  /\ onlyTestsAffected' = {}
  /\ onlyTestPackagesChanged' = {}
  /\ graph' = EmptyMap
  /\ paths' = EmptyMap
  /\ built' = {}
  /\ allChanges' = EmptyMap
  /\ cp' = [Dependencies |-> EmptyMap, Changes |-> <<>>, AllChanges |-> <<>>]
  /\ lookups' = {}
  /\ err' = "nil"
  /\ UNCHANGED <<world, json, gta, git, trav, pctx, load, rev, find>>

NextOrder == Next \/ CallAgain

SpecOrder == Init /\ [][NextOrder]_vars

C22_KeysChanged ==
  Success => \A k \in DOMAIN cp.Dependencies : k \in ImportPaths(cp.Changes)

\* The changed files that concern the package of D are test files of D or,
\* D having no changed file, files at or below D/testdata: what classifies
\* the package as test-only.
TestOnlyFiles(D) ==
  \/ /\ D \in DOMAIN dirs
     /\ \A i \in 1..Len(dirs[D].Files) : HasSuffix(dirs[D].Files[i], "_test.go")
  \/ /\ D \notin DOMAIN dirs
     /\ \E abs \in DOMAIN dirs : AtOrBelowTestdataOf(abs, D)

\* A changed file is embedded by the package P.
EmbedChanged(P) == \E f \in ChangedFiles : P \in Embedders(f)

\* markedPackages is past the range over dirs and the embed correction, and
\* has not failed.
Classified == pc \in {"mark", "build", "done"} /\ ~PullingFailed

\* C23: a package classified test-only (only test files or testdata
\* changed) of which an embedded file changed too is not test-only once all
\* directories are processed, and its change is propagated as a non-test
\* change is: its Dependencies list holds all its dependents that pass the
\* prefix filter.
C23_EmbedCorrection ==
  \A D \in PackageDirs :
    LET P == ImportPathOfDir(D)
    IN  (TestOnlyFiles(D) /\ EmbedChanged(P)) =>
          /\ Classified => P \notin onlyTestPackagesChanged
          /\ Success =>
               ImportPaths(DependenciesOf(P)) = {d \in Dependents(P) : PrefixOK(d)}

\* A result after a change of test files of a package and of a file it
\* embeds, with a dependent of the package in its Dependencies list; the
\* package was classified test-only before the correction.
C23_Witness ==
  /\ Success
  /\ \E D \in PackageDirs :
       LET P == ImportPathOfDir(D)
       IN  /\ TestOnlyFiles(D) /\ EmbedChanged(P)
           /\ D \in onlyTestsAffected
           /\ P \notin onlyTestPackagesChanged
           /\ DependenciesOf(P) # <<>>

(***************************************************************************)
(* dependencyGraph: the graphs made of the packages packages.Load returns  *)
(***************************************************************************)

\* The packages packages.Load can return for the module m at /r, loaded with
\* Tests: true, by ID.  m/a has an internal test (the variant
\* "m/a [m/a.test]"), an external test package m/a_test in the same
\* directory and the test binary m/a.test, whose only file lies in the build
\* cache; m/bar_test is a package in the directory bar_test; the files of m/e
\* are all excluded by build constraints; fmt is not of the main module.
LoadedPackages ==
  [ID \in {"m/a", "m/a [m/a.test]", "m/a_test [m/a.test]", "m/a.test",
           "m/bar_test", "m/c", "m/e", "fmt"} |->
     CASE ID = "m/a" ->
            [ID |-> ID, PkgPath |-> "m/a", GoFiles |-> <<"/r/a/a.go">>,
             EmbedFiles |-> <<"/r/a/readme.md">>, Imports |-> {"fmt"},
             Main |-> TRUE]
       [] ID = "m/a [m/a.test]" ->
            [ID |-> ID, PkgPath |-> "m/a",
             GoFiles |-> <<"/r/a/a.go", "/r/a/a_test.go">>,
             EmbedFiles |-> <<"/r/a/readme.md">>, Imports |-> {"fmt"},
             Main |-> TRUE]
       [] ID = "m/a_test [m/a.test]" ->
            [ID |-> ID, PkgPath |-> "m/a_test",
             GoFiles |-> <<"/r/a/x_test.go">>,
             EmbedFiles |-> <<"/r/a/testdata/t.txt">>,
             Imports |-> {"m/a [m/a.test]", "m/bar_test"}, Main |-> TRUE]
       [] ID = "m/a.test" ->
            [ID |-> ID, PkgPath |-> "m/a.test",
             GoFiles |-> <<"/cache/ab/abcd-d">>, EmbedFiles |-> <<>>,
             Imports |-> {"m/a [m/a.test]", "m/a_test [m/a.test]"},
             Main |-> TRUE]
       [] ID = "m/bar_test" ->
            [ID |-> ID, PkgPath |-> "m/bar_test",
             GoFiles |-> <<"/r/bar_test/util.go">>, EmbedFiles |-> <<>>,
             Imports |-> {}, Main |-> TRUE]
       [] ID = "m/c" ->
            [ID |-> ID, PkgPath |-> "m/c", GoFiles |-> <<"/r/c/c.go">>,
             EmbedFiles |-> <<>>, Imports |-> {"m/a", "m/bar_test", "m/e"},
             Main |-> TRUE]
       [] ID = "m/e" ->
            [ID |-> ID, PkgPath |-> "m/e", GoFiles |-> <<>>,
             EmbedFiles |-> <<>>, Imports |-> {}, Main |-> TRUE]
       [] OTHER ->
            [ID |-> ID, PkgPath |-> "fmt", GoFiles |-> <<"/go/fmt/print.go">>,
             EmbedFiles |-> <<>>, Imports |-> {}, Main |-> FALSE] ]

\* The packages of the main module, which the patterns can match.
RootIDs == DOMAIN LoadedPackages \ {"fmt"}

\* The most packages the patterns match.
MaxRoots == 3

\* The slices packages.Load can return: packages the patterns match, each
\* once.
Loads ==
  UNION {Orders(S) : S \in {T \in SUBSET RootIDs : Cardinality(T) <= MaxRoots}}

\* normalizeImportPath returning pkg.PkgPath as it is.
normalizeImportPathRaw(pkg) == pkg.PkgPath

normalizeImportPath(pkg) ==
  LET files == pkg.GoFiles
      importPath == pkg.PkgPath
  IN  IF \/ Len(files) = 0
         \/ ~(HasSuffix(importPath, "_test") \/ HasSuffix(importPath, ".test"))
      THEN importPath
      ELSE IF Ext(files[1]) # ".go" THEN importPath
      ELSE LET dirBase == Base(Dir(files[1]))
               importPathBase == Base(importPath)
           IN  IF importPathBase # dirBase
               THEN Join(Dir(importPath), dirBase)
               ELSE importPath

\* m with m[k] = v, the other keys as they are.
Put(m, k, v) == (k :> v) @@ m

\* m[k] of a Go map of sets: empty when k is not a key.
SetAt(m, k) == IF k \in DOMAIN m THEN m[k] ELSE {}

\* m[k] of a Go map of slices: nil when k is not a key.
SliceAt(m, k) == IF k \in DOMAIN m THEN m[k] ELSE <<>>

\* The reverse edge stored the wrong way round.
addReverseSwapped(reverse, importedPath, pkgPath) ==
  IF importedPath = pkgPath THEN reverse
  ELSE Put(reverse, pkgPath, SetAt(reverse, pkgPath) \cup {importedPath})

\* addPackage, the reverse graph after the import of importedPath by pkgPath:
\* nothing is stored when both are the same path.
addReverse(reverse, importedPath, pkgPath) ==
  IF importedPath = pkgPath THEN reverse
  ELSE Put(reverse, importedPath, SetAt(reverse, importedPath) \cup {pkgPath})

\* packagesByEmbedFile after appending pkgPath for each of files.
RECURSIVE addEmbedFiles(_, _, _)
addEmbedFiles(byFile, files, pkgPath) ==
  IF files = <<>> THEN byFile
  ELSE addEmbedFiles(Put(byFile, Head(files),
                         Append(SliceAt(byFile, Head(files)), pkgPath)),
                     Tail(files), pkgPath)

\* pkg is a test binary: its first file is not a Go source file.
isTestBinary(pkg) ==
  Ext(pkg.GoFiles[1]) # ".go" /\ HasSuffix(pkg.PkgPath, ".test")

\* The call addPackage(pkg) up to its range over pkg.Imports, on the state l
\* of dependencyGraph: a frame is pushed when the range is entered.
addPackage(l, id) ==
  LET pkg == LoadedPackages[id]
      l1 == [l EXCEPT !.seen = @ \cup {id},
                      !.moduleNamesByDir =
                         IF pkg.Main THEN Put(@, "/r", "m") ELSE @]
      pkgPath == normalizeImportPath(pkg)
  IN  IF id \in l.seen THEN l
      ELSE IF Len(pkg.GoFiles) = 0 THEN l1
      ELSE IF isTestBinary(pkg) THEN l1
      ELSE [l1 EXCEPT
              !.packagesByEmbedFile = addEmbedFiles(@, pkg.EmbedFiles, pkgPath),
              !.forward = IF pkgPath \in DOMAIN @ THEN @ ELSE Put(@, pkgPath, {}),
              !.stack = <<[pkgPath |-> pkgPath, todo |-> pkg.Imports,
                           importedPkg |-> ""]>> \o @]

\* newPackager has called dependencyGraph, which is about to call
\* packages.Load; the call returns an error or one of Loads.
InitLoad ==
  /\ NoRun
  /\ packager = Packagers[Len(Packagers)]
  /\ json = [pc |-> "idle"]
  /\ gta = [pc |-> "idle"]
  /\ git = [pc |-> "idle"]
  /\ trav = [pc |-> "idle"]
  /\ pctx = [pc |-> "idle"]
  /\ ord = [pc |-> "idle"]
  /\ rev = [pc |-> "idle"]
  /\ find = [pc |-> "idle"]
  /\ \E failed \in BOOLEAN :
       load = [pc |-> "Load", failed |-> failed, loadedPackages |-> <<>>,
               seen |-> {}, stack |-> <<>>,
               moduleNamesByDir |-> [k \in {} |-> ""],
               forward |-> [k \in {} |-> {}],
               reverse |-> [k \in {} |-> {}],
               packagesByEmbedFile |-> [k \in {} |-> <<>>],
               err |-> "nil"]

\* packages.Load returns.
Load ==
  /\ load.pc = "Load"
  /\ IF load.failed
     THEN load' = [load EXCEPT !.pc = "done", !.err = "loading packages"]
     ELSE \E ps \in Loads :
            load' = [load EXCEPT !.pc = "range", !.loadedPackages = ps]
  /\ UNCHANGED <<gtaVars, json, gta, git, trav, pctx, ord, rev, find>>

\* The range over loadedPackages calls addPackage for the next package.
AddLoaded ==
  /\ load.pc = "range"
  /\ load.stack = <<>>
  /\ load.loadedPackages # <<>>
  /\ load' = addPackage([load EXCEPT !.loadedPackages = Tail(@)],
                        Head(load.loadedPackages))
  /\ UNCHANGED <<gtaVars, json, gta, git, trav, pctx, ord, rev, find>>

\* The range over pkg.Imports in addPackage takes the next imported package,
\* in any order, and calls addPackage for it.
AddImported ==
  /\ load.pc = "range"
  /\ load.stack # <<>>
  /\ Head(load.stack).importedPkg = ""
  /\ \E id \in Head(load.stack).todo :
       load' = addPackage(
                 [load EXCEPT !.stack = <<[Head(@) EXCEPT !.importedPkg = id,
                                                           !.todo = @ \ {id}]>>
                                        \o Tail(@)],
                 id)
  /\ UNCHANGED <<gtaVars, json, gta, git, trav, pctx, ord, rev, find>>

\* After the call for the imported package returned: the edges of the import.
AddEdges ==
  /\ load.pc = "range"
  /\ load.stack # <<>>
  /\ Head(load.stack).importedPkg # ""
  /\ LET pkgPath == Head(load.stack).pkgPath
         importedPath ==
           normalizeImportPath(LoadedPackages[Head(load.stack).importedPkg])
     IN  load' = [load EXCEPT
                    !.forward = Put(@, pkgPath, @[pkgPath] \cup {importedPath}),
                    !.reverse = addReverse(@, importedPath, pkgPath),
                    !.stack = <<[Head(@) EXCEPT !.importedPkg = ""]>> \o Tail(@)]
  /\ UNCHANGED <<gtaVars, json, gta, git, trav, pctx, ord, rev, find>>

\* addPackage returns at the end of its range over pkg.Imports.
AddReturn ==
  /\ load.pc = "range"
  /\ load.stack # <<>>
  /\ Head(load.stack).importedPkg = ""
  /\ Head(load.stack).todo = {}
  /\ load' = [load EXCEPT !.stack = Tail(@)]
  /\ UNCHANGED <<gtaVars, json, gta, git, trav, pctx, ord, rev, find>>

\* dependencyGraph returns the graphs.
LoadReturn ==
  /\ load.pc = "range"
  /\ load.stack = <<>>
  /\ load.loadedPackages = <<>>
  /\ load' = [load EXCEPT !.pc = "done"]
  /\ UNCHANGED <<gtaVars, json, gta, git, trav, pctx, ord, rev, find>>

NextLoad ==
  Load \/ AddLoaded \/ AddImported \/ AddEdges \/ AddReturn \/ LoadReturn

SpecLoad == InitLoad /\ [][NextLoad]_vars

\* dependencyGraph has returned the graphs of a successful load.
Loaded == load.pc = "done" /\ load.err = "nil"

\* The import paths that occur in the graphs.
GraphPaths ==
  DOMAIN load.forward \cup DOMAIN load.reverse
    \cup UNION {load.forward[k] : k \in DOMAIN load.forward}
    \cup UNION {load.reverse[k] : k \in DOMAIN load.reverse}

TestSuffix(pkg) ==
  HasSuffix(pkg.PkgPath, "_test") \/ HasSuffix(pkg.PkgPath, ".test")

\* The last segment of the path of pkg is the name of the directory of its
\* first file.
NamedAsDir(pkg) == Base(pkg.PkgPath) = Base(Dir(pkg.GoFiles[1]))

\* The path of pkg with its last segment replaced by the name of the
\* directory of its first file.
Folded(pkg) == Join(Dir(pkg.PkgPath), Base(Dir(pkg.GoFiles[1])))

\* The packages addPackage was called for that have files.
LoadedWithFiles ==
  {LoadedPackages[id] : id \in {i \in load.seen : LoadedPackages[i].GoFiles # <<>>}}

\* pkg is recorded under the path ip: ip is a key of the forward graph, has
\* the imports of pkg as forward edges, is a dependent of each of them in the
\* reverse graph unless it is that package itself, and is listed for every
\* file pkg embeds.
RecordedAs(pkg, ip) ==
  /\ ip \in DOMAIN load.forward
  /\ \A id \in pkg.Imports :
       LET q == normalizeImportPath(LoadedPackages[id])
       IN  /\ q \in load.forward[ip]
           /\ q # ip => ip \in SetAt(load.reverse, q)
  /\ \A i \in 1..Len(pkg.EmbedFiles) :
       ip \in Range(SliceAt(load.packagesByEmbedFile, pkg.EmbedFiles[i]))

\* ip occurs nowhere in the graphs and the embed index.
NotRecorded(ip) ==
  /\ ip \notin GraphPaths
  /\ \A f \in DOMAIN load.packagesByEmbedFile :
       ip \notin Range(load.packagesByEmbedFile[f])

\* C25 as claimed: a loaded package whose path ends in _test or .test and
\* whose last segment differs from the name of its directory is recorded
\* under the path with the last segment replaced by that name; one whose
\* directory carries the name keeps its path and its dependents.
C25_Original ==
  Loaded =>
    \A pkg \in LoadedWithFiles :
      TestSuffix(pkg) =>
        IF NamedAsDir(pkg) THEN RecordedAs(pkg, pkg.PkgPath)
        ELSE RecordedAs(pkg, Folded(pkg))

\* C25, amended: the folding applies to the loaded packages whose first file
\* is a Go source file; such a package is recorded under the folded path and
\* not under its own, a package whose directory carries the name keeps its
\* path and its dependents, and a test binary (a path ending in .test, the
\* first file not a .go file) is not recorded at all.
C25_Folding ==
  Loaded =>
    \A pkg \in LoadedWithFiles :
      TestSuffix(pkg) =>
        IF Ext(pkg.GoFiles[1]) # ".go"
        THEN HasSuffix(pkg.PkgPath, ".test") =>
               NotRecorded(pkg.PkgPath) /\ NotRecorded(Folded(pkg))
        ELSE IF NamedAsDir(pkg) THEN RecordedAs(pkg, pkg.PkgPath)
        ELSE RecordedAs(pkg, Folded(pkg)) /\ NotRecorded(pkg.PkgPath)

\* The graphs of a load with the external test package of m/a folded into
\* m/a, embedded file included, the package m/bar_test under its own path
\* with its dependents m/a and m/c, and the test binary of m/a.
C25_Witness ==
  /\ Loaded
  /\ {"m/a_test [m/a.test]", "m/bar_test", "m/a.test", "m/c"} \subseteq load.seen
  /\ "m/a" \in Range(SliceAt(load.packagesByEmbedFile, "/r/a/testdata/t.txt"))
  /\ SetAt(load.reverse, "m/bar_test") = {"m/a", "m/c"}
  /\ "m/a_test" \notin GraphPaths

(***************************************************************************)
(* findImportPath                                                          *)
(***************************************************************************)

\* The names the directories below / are made of.
SegmentNames == {"r", "a", "d", "f", "g", "q", "w"}

\* The most segments of a directory findImportPath is called with.
MaxSegments == 3

\* The absolute directories of n segments.
RECURSIVE PathsOfLen(_)
PathsOfLen(n) ==
  IF n = 0 THEN {""}
  ELSE {p \o "/" \o seg : p \in PathsOfLen(n - 1), seg \in SegmentNames}

\* The directories findImportPath is called with.
FindPaths == UNION {PathsOfLen(n) : n \in 1..MaxSegments}

\* A GTA with one of the packagers is about to call findImportPath(abs).
InitFind ==
  /\ NoRun
  /\ packager \in Range(Packagers)
  /\ json = [pc |-> "idle"]
  /\ gta = [pc |-> "idle"]
  /\ git = [pc |-> "idle"]
  /\ trav = [pc |-> "idle"]
  /\ pctx = [pc |-> "idle"]
  /\ ord = [pc |-> "idle"]
  /\ load = [pc |-> "idle"]
  /\ rev = [pc |-> "idle"]
  /\ \E abs \in FindPaths : find = [pc |-> "call", abs |-> abs]

\* The call returns.
CallFindImportPath ==
  /\ find.pc = "call"
  /\ find' = [pc |-> "returned", abs |-> find.abs,
              importPath |-> findImportPath(find.abs).ImportPath,
              err |-> IF findImportPath(find.abs).notFound
                      THEN "could not find import path" ELSE "nil"]
  /\ UNCHANGED <<gtaVars, json, gta, git, trav, pctx, ord, load, rev>>

NextFind == CallFindImportPath

SpecFind == InitFind /\ [][NextFind]_vars

\* The directory D and the directories above it, the filesystem root left
\* out (findImportPath stops there without asking the packager).
RECURSIVE AncestorsOrSelf(_)
AncestorsOrSelf(D) ==
  IF D \in {"/", ".", ""} THEN {} ELSE {D} \cup AncestorsOrSelf(Dir(D))

\* A exists and resolves: PackageFromDir succeeds, or fails for want of Go
\* source files and PackageFromEmptyDir succeeds.
Resolves(A) ==
  /\ exists(A)
  /\ \/ PackageFromDir(A).err = "nil"
     \/ /\ PackageFromDir(A).err = "NoGoError"
        /\ PackageFromEmptyDir(A).err = "nil"

\* The import path A resolves to.
ResolvedPath(A) ==
  IF PackageFromDir(A).err = "nil" THEN PackageFromDir(A).ImportPath
  ELSE PackageFromEmptyDir(A).ImportPath

\* The nearest of the directories of S to D: the longest.
Nearest(S) == CHOOSE A \in S : \A B \in S : Len(B) <= Len(A)

\* C26: findImportPath(D) returns the import path of the nearest directory
\* A among D and its ancestors below the filesystem root that exists and
\* resolves, as it is when A is D and joined with the path of D relative to
\* A otherwise; it fails with "could not find import path" exactly when
\* there is no such directory.
C26_FindImportPath ==
  find.pc = "returned" =>
    LET S == {A \in AncestorsOrSelf(find.abs) : Resolves(A)}
    IN  IF S = {} THEN find.err = "could not find import path"
        ELSE /\ find.err = "nil"
             /\ find.importPath =
                  IF Nearest(S) = find.abs THEN ResolvedPath(find.abs)
                  ELSE Join(ResolvedPath(Nearest(S)),
                            SubSeq(find.abs, Len(Nearest(S)) + 2, Len(find.abs)))

\* findImportPath returned the import path of a directory two levels above a
\* deleted directory, with both deleted segments appended.
C26_Witness ==
  /\ find.pc = "returned"
  /\ find.abs = "/r/d/q"
  /\ find.err = "nil"
  /\ find.importPath = "m/d/q"

\* D is a changed directory that still exists, is not ignored by the Go
\* tool, and for which PackageFromDir fails with an error that is neither
\* *build.NoGoError nor scanner.ErrorList.
HardFailing(D) ==
  /\ D \in DOMAIN dirs
  /\ dirs[D].Exists
  /\ ~isIgnoredByGo(D, roots)
  /\ PackageFromDir(D).err = "other"

\* The error that quotes the directory D.
ErrorQuoting(D) == "pulling package information for " \o D

\* ChangedPackages returned no Packages value.
NoPackages ==
  cp = [Dependencies |-> EmptyMap, Changes |-> <<>>, AllChanges |-> <<>>]

MarkedToLookUp ==
  UNION {{ip \in DOMAIN paths[c] : paths[c][ip]} : c \in DOMAIN paths}

\* The calls of PackageFromImport that failed.
FailedLookups == {ip \in lookups : PackageFromImport(packager, ip).err # "nil"}

\* C28: when PackageFromImport fails for a marked package that is not
\* deleted, whether or not the package passes the prefix filter,
\* ChangedPackages returns the error of that call and no Packages value; and
\* it cannot succeed while such a package is marked.
C28_LookupError ==
  /\ FailedLookups # {} =>
       /\ pc = "done"
       /\ \E ip \in FailedLookups : err = ip \o " not found"
       /\ NoPackages
  /\ (pc = "done" /\ \E ip \in MarkedToLookUp :
                        PackageFromImport(packager, ip).err # "nil") =>
       FailedLookups # {}

\* ChangedPackages has returned the error of the lookup of a package that
\* the prefix filter excludes, after it had built the packages of another
\* changed package, and nothing of what it had built.
C28_Witness ==
  /\ pc = "done"
  /\ prefixes # <<>>
  /\ built # {}
  /\ DOMAIN allChanges # {}
  /\ \E ip \in FailedLookups : err = ip \o " not found" /\ ~PrefixOK(ip)
  /\ NoPackages

\* C29: a changed package is never in its own Dependencies list, also when
\* the reverse graph has a cycle through it, and no key of Dependencies has
\* an empty list.
C29_NoSelfNoEmpty ==
  Success =>
    \A k \in DOMAIN cp.Dependencies :
      /\ k \notin ImportPaths(cp.Dependencies[k])
      /\ cp.Dependencies[k] # <<>>

\* A result for a changed package on a cycle of the reverse graph, with the
\* other package of the cycle in its list, and for a changed package without
\* dependents, which is no key of Dependencies.
C29_Witness ==
  /\ Success
  /\ \E k \in DOMAIN cp.Dependencies :
       /\ k \in ImportPaths(cp.Changes)
       /\ \E d \in Dependents(k) : k \in Dependents(d)
       /\ cp.Dependencies[k] # <<>>
  /\ \E c \in ImportPaths(cp.Changes) :
       Dependents(c) = {} /\ c \notin DOMAIN cp.Dependencies

(***************************************************************************)
(* git.diff: the revisions that are compared                               *)
(***************************************************************************)

\* What a git command printed, or that it exited non-zero.  The output of
\* git rev-list --parents is a list of lines of commit hashes, a commit
\* followed by its parents; the empty output is one empty line.
RevListOutputs ==
  { [err |-> TRUE, lines |-> << <<>> >>],
    [err |-> FALSE, lines |-> << <<>> >>],
    [err |-> FALSE, lines |-> << <<"c1">> >>],
    [err |-> FALSE, lines |-> << <<"c1", "p0">>, <<"c2", "c1">> >>],
    [err |-> FALSE, lines |-> << <<"c1", "p0", "p9">> >>] }

\* The most parents of HEAD.
MaxParents == 3

\* git log -1 --pretty=format:%p split at the blanks: the abbreviated
\* hashes of the parents of HEAD; splitting the empty output gives one empty
\* string.
ParentOutputs ==
  {[err |-> TRUE, parentSplit |-> <<"">>], [err |-> FALSE, parentSplit |-> <<"">>]}
    \cup {[err |-> FALSE, parentSplit |-> [i \in 1..n |-> <<"p1", "p2", "p3", "p4">>[i]]] :
            n \in 1..MaxParents}

\* git log -1 --merges --pretty=format:%h: the most recent merge commit.
MergesOutputs ==
  { [err |-> TRUE, out |-> ""], [err |-> FALSE, out |-> ""],
    [err |-> FALSE, out |-> "mm"] }

\* The names git diff parent1...parent2 --name-only prints, relative to the
\* top level: one file is in every diff, one only in the diff of parent2.
GitDiffNames(parent1, parent2) == {"a/a.go", "b/" \o parent2 \o ".go"}

\* diffPaths: the absolute paths of the names.
diffPaths(root, names) == {Join(root, n) : n \in names}

\* branchPointOf returning the error of git rev-list.
branchPointOfFailing(out) ==
  IF out.err THEN [branchPoint |-> "", err |-> "exit status 128"]
  ELSE IF Len(out.lines[1]) < 2 THEN [branchPoint |-> "", err |-> "nil"]
  ELSE [branchPoint |-> out.lines[1][2], err |-> "nil"]

\* branchPointOf, given what git rev-list printed: the first parent of the
\* first commit listed, or the empty string; never an error.
branchPointOf(out) ==
  IF out.err THEN [branchPoint |-> "", err |-> "nil"]
  ELSE IF Len(out.lines[1]) < 2 THEN [branchPoint |-> "", err |-> "nil"]
  ELSE [branchPoint |-> out.lines[1][2], err |-> "nil"]

\* getMergeParents, given what the two git log commands printed.
getMergeParents(parents, merges) ==
  IF parents.err
  THEN [parent1 |-> "", rightwardParents |-> <<>>, err |-> "exit status 128"]
  ELSE IF Len(parents.parentSplit) >= 2
  THEN [parent1 |-> parents.parentSplit[1],
        rightwardParents |-> Tail(parents.parentSplit), err |-> "nil"]
  ELSE IF merges.err
  THEN [parent1 |-> "", rightwardParents |-> <<>>, err |-> "exit status 128"]
  ELSE [parent1 |-> merges.out, rightwardParents |-> <<"HEAD">>, err |-> "nil"]

\* A git differ made by NewGitDiffer with its options, at the start of the
\* function onceDiff runs.
InitRev ==
  /\ NoRun
  /\ packager = Packagers[Len(Packagers)]
  /\ json = [pc |-> "idle"]
  /\ gta = [pc |-> "idle"]
  /\ git = [pc |-> "idle"]
  /\ trav = [pc |-> "idle"]
  /\ pctx = [pc |-> "idle"]
  /\ ord = [pc |-> "idle"]
  /\ load = [pc |-> "idle"]
  /\ find = [pc |-> "idle"]
  /\ \E useMergeCommit \in BOOLEAN, baseBranch \in {"origin/master", "main"} :
       rev = [pc |-> "toplevel", useMergeCommit |-> useMergeCommit,
              baseBranch |-> baseBranch, root |-> "",
              revList |-> [err |-> FALSE, lines |-> << <<>> >>],
              parents |-> [err |-> FALSE, parentSplit |-> <<"">>],
              merges |-> [err |-> FALSE, out |-> ""],
              parent1 |-> "", rightwardParents |-> <<>>,
              commands |-> <<>>, files |-> {}, failed |-> "",
              changedFiles |-> {}, diffErr |-> "nil"]

\* git rev-parse --show-toplevel.
RevParseTopLevel ==
  /\ rev.pc = "toplevel"
  /\ \E failed \in BOOLEAN :
       rev' = IF failed
              THEN [rev EXCEPT !.pc = "done", !.failed = "rev-parse",
                               !.diffErr = "exit status 128"]
              ELSE [rev EXCEPT !.pc = "branchPoint", !.root = "/r"]
  /\ UNCHANGED <<gtaVars, json, gta, git, trav, pctx, ord, load, find>>

\* branchPointOf("HEAD"), the fallback to the base branch and, with
\* useMergeCommit, getMergeParents.
ChooseRevisions ==
  /\ rev.pc = "branchPoint"
  /\ \E out \in RevListOutputs, parents \in ParentOutputs, merges \in MergesOutputs :
       LET bp == branchPointOf(out)
           parent1 == IF bp.branchPoint = "" THEN rev.baseBranch
                      ELSE bp.branchPoint
           mp == getMergeParents(parents, merges)
           ran == [rev EXCEPT !.revList = out]
       IN  /\ rev.useMergeCommit \/
                (parents = [err |-> FALSE, parentSplit |-> <<"">>]
                   /\ merges = [err |-> FALSE, out |-> ""])
           /\ (Len(parents.parentSplit) >= 2 \/ parents.err) =>
                 merges = [err |-> FALSE, out |-> ""]
           /\ rev' =
                IF bp.err # "nil"
                THEN [ran EXCEPT !.pc = "done", !.failed = "rev-list",
                                 !.diffErr = bp.err]
                ELSE IF ~rev.useMergeCommit
                THEN [ran EXCEPT !.pc = "diff", !.parent1 = parent1,
                                 !.rightwardParents = <<"HEAD">>]
                ELSE IF mp.err # "nil"
                THEN [ran EXCEPT !.pc = "done", !.failed = "log",
                                 !.parents = parents, !.merges = merges,
                                 !.diffErr = mp.err]
                ELSE [ran EXCEPT !.pc = "diff", !.parents = parents,
                                 !.merges = merges, !.parent1 = mp.parent1,
                                 !.rightwardParents = mp.rightwardParents]
  /\ UNCHANGED <<gtaVars, json, gta, git, trav, pctx, ord, load, find>>

\* One iteration of the range over rightwardParents: git diff
\* parent1...parent2 --name-only --no-renames, which may fail.
DiffParent ==
  /\ rev.pc = "diff"
  /\ rev.rightwardParents # <<>>
  /\ \E failed \in BOOLEAN :
       LET parent2 == Head(rev.rightwardParents)
           ran == [rev EXCEPT
                     !.commands = Append(@, [parent1 |-> rev.parent1,
                                             parent2 |-> parent2])]
       IN  rev' =
             IF failed
             THEN [ran EXCEPT !.pc = "done", !.failed = "diff",
                              !.diffErr = "exit status 128"]
             ELSE [ran EXCEPT
                     !.files = @ \cup diffPaths(rev.root,
                                                GitDiffNames(rev.parent1, parent2)),
                     !.rightwardParents = Tail(@)]
  /\ UNCHANGED <<gtaVars, json, gta, git, trav, pctx, ord, load, find>>

\* The function returns the files and onceDiff stores them.
DiffReturn ==
  /\ rev.pc = "diff"
  /\ rev.rightwardParents = <<>>
  /\ rev' = [rev EXCEPT !.pc = "done", !.changedFiles = rev.files]
  /\ UNCHANGED <<gtaVars, json, gta, git, trav, pctx, ord, load, find>>

NextRev == RevParseTopLevel \/ ChooseRevisions \/ DiffParent \/ DiffReturn

SpecRev == InitRev /\ [][NextRev]_vars

\* The branch point of HEAD that git rev-list shows: the first parent of the
\* oldest commit of HEAD that is not on the base branch; empty when the
\* command exits non-zero, prints nothing or prints a commit without parent.
BranchPoint ==
  IF rev.revList.err \/ Len(rev.revList.lines[1]) < 2 THEN ""
  ELSE rev.revList.lines[1][2]

\* The left revision and the right revisions the claim names.
LeftRevision ==
  IF rev.useMergeCommit
  THEN IF Len(rev.parents.parentSplit) >= 2 THEN rev.parents.parentSplit[1]
       ELSE rev.merges.out
  ELSE IF BranchPoint = "" THEN rev.baseBranch ELSE BranchPoint

RightRevisions ==
  IF rev.useMergeCommit /\ Len(rev.parents.parentSplit) >= 2
  THEN Tail(rev.parents.parentSplit)
  ELSE <<"HEAD">>

====
